---- MODULE Spec2Model ----
(***************************************************************************)
(* A model of the triage engine of the telemedicine backend: the mental-   *)
(* health crisis detector and its sanitizer (services/mental_health_       *)
(* security.py), the POST /mental-health route with the assessment it      *)
(* calls (api/mental_health_routes.py, services/ai_service.py) and the     *)
(* multi-factor risk aggregator (services/risk_assessment_service.py) with *)
(* the routes that call it (api/integration_routes.py), the follow-up      *)
(* question generator (services/conversation_service.py) and the model     *)
(* loader (services/model_management_service.py).                          *)
(*                                                                         *)
(* Text is modelled by TLA+ strings; Python's substring test, lower(),     *)
(* ' '.join and re.sub are computed character by character.  JSON values   *)
(* are tagged records: [t |-> "int", n |-> 3], [t |-> "str", s |-> "x"].   *)
(***************************************************************************)
EXTENDS Integers, Sequences, FiniteSets, TLC

VARIABLES
    payload,     \* the mental-health payload the caller holds
    risk_args,   \* the arguments the caller holds for assess_comprehensive_risk
    op,          \* the operation that ran last ("init": none yet)
    all_text,    \* the corpus the crisis detector scanned in that operation
    ret,         \* what that operation returned
    calls,       \* the calls of assess_comprehensive_risk made so far on the
                 \* instance, each with its arguments and its result
    model_status,      \* ModelManagementService.model_status
    loading_progress,  \* ModelManagementService.loading_progress
    memory_usage,      \* ModelManagementService.memory_usage, in units of 0.05 GiB
    model_info,        \* ModelManagementService.model_info
    loaders,     \* the position of each background loading thread (0: none)
    pc           \* the position of each request thread in the model service

\* the fields and threads of the model service
model_vars == <<model_status, loading_progress, memory_usage, model_info, loaders, pc>>

vars == <<payload, risk_args, op, all_text, ret, calls, model_vars>>

(***************************************************************************)
(* Strings                                                                 *)
(***************************************************************************)

\* s[i] as a one-character string
CharAt(s, i) == SubSeq(s, i, i)

UpperChars == "ABCDEFGHIJKLMNOPQRSTUVWXYZ"
LowerChars == "abcdefghijklmnopqrstuvwxyz"

UpperSet == {CharAt(UpperChars, i) : i \in 1..Len(UpperChars)}

LowerTable ==
    [c \in UpperSet |->
        CharAt(LowerChars, CHOOSE i \in 1..Len(UpperChars) : CharAt(UpperChars, i) = c)]

\* str.lower() of one character (ASCII letters)
LowerChar(c) == IF c \in UpperSet THEN LowerTable[c] ELSE c

\* str.lower(), by halves
RECURSIVE Lower(_)
Lower(s) ==
    IF Len(s) = 0 THEN ""
    ELSE IF Len(s) = 1 THEN LowerChar(s)
    ELSE LET h == Len(s) \div 2
         IN  Lower(SubSeq(s, 1, h)) \o Lower(SubSeq(s, h + 1, Len(s)))

\* the least element of a non-empty set of integers
Min(S) == CHOOSE x \in S : \A y \in S : x <= y

\* Python's  needle in hay  on strings
Contains(hay, needle) ==
    \E i \in 1..(Len(hay) - Len(needle) + 1) :
        SubSeq(hay, i, i + Len(needle) - 1) = needle

\* ' '.join(parts)
RECURSIVE JoinFrom(_, _)
JoinFrom(parts, i) ==
    IF i > Len(parts) THEN ""
    ELSE IF i = Len(parts) THEN parts[i]
    ELSE parts[i] \o " " \o JoinFrom(parts, i + 1)

Join(parts) == JoinFrom(parts, 1)

\* [f(x) for x in seq] for f = str.lower
LowerAll(seq) == [i \in 1..Len(seq) |-> Lower(seq[i])]

(***************************************************************************)
(* JSON values and payloads                                                *)
(***************************************************************************)

IntV(n) == [t |-> "int", n |-> n]
StrV(s) == [t |-> "str", s |-> s]
ListV(items) == [t |-> "list", items |-> items]
\* a dict, as the sequence of its (key, value) pairs in insertion order
DictV(items) == [t |-> "dict", items |-> items]
NoneV == [t |-> "none"]
\* the key is not in the dict
Absent == [t |-> "absent"]

\* d.get(key, default) on the pairs of a dict
RECURSIVE GetFrom(_, _, _, _)
GetFrom(items, i, key, default) ==
    IF i > Len(items) THEN default
    ELSE IF items[i].key = key THEN items[i].val
    ELSE GetFrom(items, i + 1, key, default)

DictGet(d, key, default) == GetFrom(d.items, 1, key, default)

\* user_input.get(field, default) on a mental-health payload
PayloadGet(p, field, default) ==
    IF p[field].t = "absent" THEN default ELSE p[field]

(***************************************************************************)
(* MentalHealthSecurityService.assess_crisis_risk                          *)
(***************************************************************************)

risk_keywords ==
    [crisis |-> <<"suicide", "kill myself", "end it all", "not worth living",
                  "better off dead", "hurt myself", "self-harm", "cutting">>,
     high_risk |-> <<"hopeless", "worthless", "trapped", "burden", "pain",
                     "can't go on", "no point", "give up">>,
     moderate_risk |-> <<"depressed", "anxious", "overwhelmed", "stressed",
                         "panic", "worried", "sad", "lonely">>]

\* the number of places where keyword occurs in text
Occurrences(text, keyword) ==
    Cardinality({i \in 1..(Len(text) - Len(keyword) + 1) :
                    SubSeq(text, i, i + Len(keyword) - 1) = keyword})

\* ScanKeywords, adding the weight once for every occurrence of a keyword
RECURSIVE ScanKeywordsPerOccurrence(_, _, _, _, _)
ScanKeywordsPerOccurrence(keywords, i, text, weight, label) ==
    IF i > Len(keywords) THEN [score |-> 0, indicators |-> <<>>]
    ELSE LET rest == ScanKeywordsPerOccurrence(keywords, i + 1, text, weight, label)
         IN  IF Contains(text, keywords[i])
             THEN [score |-> weight * Occurrences(text, keywords[i]) + rest.score,
                   indicators |-> <<label \o keywords[i]>> \o rest.indicators]
             ELSE rest

\* one  for keyword in ...: if keyword in all_text: ...  loop
RECURSIVE ScanKeywords(_, _, _, _, _)
ScanKeywords(keywords, i, text, weight, label) ==
    IF i > Len(keywords) THEN [score |-> 0, indicators |-> <<>>]
    ELSE LET rest == ScanKeywords(keywords, i + 1, text, weight, label)
         IN  IF Contains(text, keywords[i])
             THEN [score |-> weight + rest.score,
                   indicators |-> <<label \o keywords[i]>> \o rest.indicators]
             ELSE rest

\* the string values of responses, lower-cased, in the dict's order
RECURSIVE ResponseTexts(_, _)
ResponseTexts(items, i) ==
    IF i > Len(items) THEN <<>>
    ELSE IF items[i].val.t = "str"
         THEN <<Lower(items[i].val.s)>> \o ResponseTexts(items, i + 1)
         ELSE ResponseTexts(items, i + 1)

\* True when the try block of assess_crisis_risk raises
CrisisRaises(user_input) ==
    \/ user_input.t # "dict"
    \/ PayloadGet(user_input, "responses", DictV(<<>>)).t # "dict"
    \/ PayloadGet(user_input, "symptoms", ListV(<<>>)).t # "list"
    \/ PayloadGet(user_input, "triggers", ListV(<<>>)).t # "list"

\* text_inputs, as lines 119-138 collect it
TextInputs(user_input) ==
    LET responses == PayloadGet(user_input, "responses", DictV(<<>>))
        symptoms == PayloadGet(user_input, "symptoms", ListV(<<>>))
        triggers == PayloadGet(user_input, "triggers", ListV(<<>>))
        support_system == PayloadGet(user_input, "support_system", StrV(""))
    IN  ResponseTexts(responses.items, 1)
        \o LowerAll(symptoms.items)
        \o LowerAll(triggers.items)
        \o (IF support_system.t = "str" /\ support_system.s # ""
            THEN <<Lower(support_system.s)>> ELSE <<>>)

AllText(user_input) == Join(TextInputs(user_input))

\* isinstance(v, int) and v <= bound / v >= bound
IntAtMost(v, bound) == v.t = "int" /\ v.n <= bound
IntAtLeast(v, bound) == v.t = "int" /\ v.n >= bound

\* CrisisRiskLevel with the boundaries exclusive
CrisisRiskLevelExclusive(risk_score) ==
    IF risk_score > 10 THEN "crisis"
    ELSE IF risk_score > 6 THEN "high"
    ELSE IF risk_score > 3 THEN "moderate"
    ELSE "low"

\* lines 180-188
CrisisRiskLevel(risk_score) ==
    IF risk_score >= 10 THEN "crisis"
    ELSE IF risk_score >= 6 THEN "high"
    ELSE IF risk_score >= 3 THEN "moderate"
    ELSE "low"

\* line 194
CrisisInterventionNeeded(risk_level) == risk_level = "crisis"

\* ProfessionalReferralSuggested, forgetting the high level
ProfessionalReferralCrisisOnly(risk_level) == risk_level = "crisis"

\* line 195
ProfessionalReferralSuggested(risk_level) == risk_level \in {"crisis", "high"}

\* CrisisFailSafe with a score that normal scoring reaches
CrisisFailSafeLowScore ==
    [risk_level |-> "high",
     risk_score |-> 99,
     risk_indicators |-> <<"Assessment system error - defaulting to high risk">>,
     crisis_intervention_needed |-> TRUE,
     professional_referral_suggested |-> TRUE]

\* the except branch, lines 199-209
CrisisFailSafe ==
    [risk_level |-> "high",
     risk_score |-> 999,
     risk_indicators |-> <<"Assessment system error - defaulting to high risk">>,
     crisis_intervention_needed |-> TRUE,
     professional_referral_suggested |-> TRUE]

\* the numeric overlay, lines 162-178
NumericOverlay(responses) ==
    LET mood == IntAtMost(DictGet(responses, "mood_rating", NoneV), 3)
        anxiety == IntAtLeast(DictGet(responses, "anxiety_level", NoneV), 8)
        stress == IntAtLeast(DictGet(responses, "stress_level", NoneV), 8)
    IN  [score |-> (IF mood THEN 3 ELSE 0) + (IF anxiety THEN 2 ELSE 0)
                   + (IF stress THEN 2 ELSE 0),
         indicators |-> (IF mood THEN <<"Very low mood rating">> ELSE <<>>)
                        \o (IF anxiety THEN <<"High anxiety level">> ELSE <<>>)
                        \o (IF stress THEN <<"High stress level">> ELSE <<>>)]

\* the try branch, lines 115-197
CrisisNormal(user_input) ==
    LET text == AllText(user_input)
        crisis == ScanKeywords(risk_keywords.crisis, 1, text, 10, "Crisis indicator: ")
        high == ScanKeywords(risk_keywords.high_risk, 1, text, 5, "High risk indicator: ")
        moderate == ScanKeywords(risk_keywords.moderate_risk, 1, text, 2,
                                 "Moderate risk indicator: ")
        numeric == NumericOverlay(PayloadGet(user_input, "responses", DictV(<<>>)))
        risk_score == crisis.score + high.score + moderate.score + numeric.score
        risk_level == CrisisRiskLevel(risk_score)
    IN  [risk_level |-> risk_level,
         risk_score |-> risk_score,
         risk_indicators |-> crisis.indicators \o high.indicators
                             \o moderate.indicators \o numeric.indicators,
         crisis_intervention_needed |-> CrisisInterventionNeeded(risk_level),
         professional_referral_suggested |-> ProfessionalReferralSuggested(risk_level)]

assess_crisis_risk(user_input) ==
    IF CrisisRaises(user_input) THEN CrisisFailSafe ELSE CrisisNormal(user_input)

(***************************************************************************)
(* MentalHealthSecurityService.sanitize_mental_health_input                *)
(***************************************************************************)

\* the characters \s matches (ASCII)
Whitespace == {" ", "\t", "\n", "\r", "\f"}

\* the patterns of lines 217-226, in order; all are applied with re.IGNORECASE
dangerous_patterns ==
    << [kind |-> "script"],                               \* <script[^>]*>.*?</script>
       [kind |-> "literal", lit |-> "javascript:"],       \* javascript:
       [kind |-> "word_then", word |-> "onload", ch |-> "="],   \* onload\s*=
       [kind |-> "word_then", word |-> "onerror", ch |-> "="],  \* onerror\s*=
       [kind |-> "word_then", word |-> "eval", ch |-> "("],     \* eval\s*\(
       [kind |-> "literal", lit |-> "document."],         \* document\.
       [kind |-> "literal", lit |-> "window."],           \* window\.
       [kind |-> "word_then", word |-> "alert", ch |-> "("] >>  \* alert\s*\(

\* s[i..] starts with lit, ignoring case
StartsWithAt(s, i, lit) ==
    /\ i + Len(lit) - 1 <= Len(s)
    /\ LowerChar(CharAt(s, i)) = CharAt(lit, 1)
    /\ Lower(SubSeq(s, i, i + Len(lit) - 1)) = lit

\* the first index >= i of s that holds no whitespace (Len(s) + 1 if none)
SkipSpaces(s, i) ==
    Min({j \in i..(Len(s) + 1) : j = Len(s) + 1 \/ CharAt(s, j) \notin Whitespace})

\* the first index >= i of s that holds c (0 if none)
FindChar(s, i, c) ==
    LET at == {j \in i..Len(s) : CharAt(s, j) = c}
    IN  IF at = {} THEN 0 ELSE Min(at)

\* .*?</script> from index i: the index after the first </script> that no
\* newline precedes (0 if none)
LazyToClose(s, i) ==
    LET closes == {j \in i..Len(s) : StartsWithAt(s, j, "</script>")}
        newline == FindChar(s, i, "\n")
    IN  IF closes = {} THEN 0
        ELSE IF newline # 0 /\ newline < Min(closes) THEN 0
        ELSE Min(closes) + Len("</script>")

\* length of the match of <script[^>]*>.*?</script> at index i (0: no match)
MatchScript(s, i) ==
    IF ~StartsWithAt(s, i, "<script") THEN 0
    ELSE LET gt == FindChar(s, i + Len("<script"), ">")
         IN  IF gt = 0 THEN 0
             ELSE LET end == LazyToClose(s, gt + 1)
                  IN  IF end = 0 THEN 0 ELSE end - i

\* length of the match of  word\s*ch  at index i (0: no match)
MatchWordThen(s, i, word, ch) ==
    IF ~StartsWithAt(s, i, word) THEN 0
    ELSE LET j == SkipSpaces(s, i + Len(word))
         IN  IF j <= Len(s) /\ CharAt(s, j) = ch THEN j - i + 1 ELSE 0

\* length of the match of one pattern at index i of s (0: no match)
MatchLen(pattern, s, i) ==
    IF pattern.kind = "script" THEN MatchScript(s, i)
    ELSE IF pattern.kind = "literal"
         THEN (IF StartsWithAt(s, i, pattern.lit) THEN Len(pattern.lit) ELSE 0)
    ELSE MatchWordThen(s, i, pattern.word, pattern.ch)

\* re.sub(pattern, '[REMOVED]', s): leftmost matches, not overlapping
RECURSIVE SubFrom(_, _, _)
SubFrom(pattern, s, i) ==
    LET starts == {j \in i..Len(s) : MatchLen(pattern, s, j) > 0}
    IN  IF starts = {} THEN SubSeq(s, i, Len(s))
        ELSE LET j == Min(starts)
             IN  SubSeq(s, i, j - 1) \o "[REMOVED]"
                 \o SubFrom(pattern, s, j + MatchLen(pattern, s, j))

ReSub(pattern, s) == SubFrom(pattern, s, 1)

\* the loop of clean_text over the patterns, from pattern k on
RECURSIVE CleanFrom(_, _)
CleanFrom(text, k) ==
    IF k > Len(dangerous_patterns) THEN text
    ELSE CleanFrom(ReSub(dangerous_patterns[k], text), k + 1)

clean_text(text) == CleanFrom(text, 1)

\* clean_dict on one JSON value (a dict of scalars, a list of strings, a scalar)
clean_dict(v) ==
    IF v.t = "dict"
    THEN DictV([i \in 1..Len(v.items) |->
                  [key |-> v.items[i].key,
                   val |-> IF v.items[i].val.t = "str"
                           THEN StrV(clean_text(v.items[i].val.s))
                           ELSE v.items[i].val]])
    ELSE IF v.t = "list"
    THEN ListV([i \in 1..Len(v.items) |-> clean_text(v.items[i])])
    ELSE IF v.t = "str" THEN StrV(clean_text(v.s))
    ELSE v

\* data.copy() raises on a payload that is no dict, and the except branch
\* returns the data as they came
sanitize_mental_health_input(data) ==
    IF data.t # "dict" THEN data
    ELSE [t |-> "dict",
          responses |-> clean_dict(data.responses),
          symptoms |-> clean_dict(data.symptoms),
          triggers |-> clean_dict(data.triggers),
          support_system |-> clean_dict(data.support_system)]

(***************************************************************************)
(* POST /mental-health and AIService.assess_mental_health                  *)
(***************************************************************************)

\* _mock_mental_health_assessment: avg_score = (mood + anxiety) / 2 compared
\* with 2, 4 and 6, that is mood + anxiety compared with 4, 8 and 12
MockRiskLevel(mood_rating, anxiety_level) ==
    IF mood_rating + anxiety_level <= 4 THEN "crisis"
    ELSE IF mood_rating + anxiety_level <= 8 THEN "high"
    ELSE IF mood_rating + anxiety_level <= 12 THEN "moderate"
    ELSE "low"

\* the ai_response of assess_mental_health(assessment_type, responses, ...):
\* only responses reaches the assessment
assess_mental_health(responses) ==
    LET mood_rating == DictGet(responses, "mood_rating", IntV(5)).n
        anxiety_level == DictGet(responses, "anxiety_level", IntV(5)).n
        risk_level == MockRiskLevel(mood_rating, anxiety_level)
    IN  [risk_level |-> risk_level,
         professional_referral_suggested |-> risk_level \in {"high", "crisis"},
         crisis_intervention_needed |-> risk_level = "crisis"]

rating_fields ==
    <<"mood_rating", "anxiety_level", "sleep_quality", "stress_level",
      "energy_level", "social_interaction", "concentration", "appetite">>

\* lines 108-116: a rating that is present must be an integer from 1 to 10
RatingsValid(responses) ==
    \A i \in 1..Len(responses.items) :
        (\E f \in 1..Len(rating_fields) : rating_fields[f] = responses.items[i].key)
            => LET value == responses.items[i].val
               IN  value.t = "int" /\ value.n >= 1 /\ value.n <= 10

crisis_resources ==
    [national_suicide_prevention_lifeline |-> "988",
     crisis_text_line |-> "Text HOME to 741741",
     emergency_services |-> "911"]

NoResources == [none |-> TRUE]

ErrorResponse(status_code) == [status_code |-> status_code]

\* AttachCrisisResources, leaving the bundle out
AttachNoResources(ai_response) == NoResources

\* lines 183-188 and 418-423: the bundle goes with crisis_intervention_needed
AttachCrisisResources(ai_response) ==
    IF ai_response.crisis_intervention_needed THEN crisis_resources ELSE NoResources

\* the fallback of lines 198-221: no assessment, the bundle, status 503
FallbackResponse == [status_code |-> 503, crisis_resources |-> crisis_resources]

\* the route, for a request with a user_id and a valid assessment_type;
\* ai_fault: the try block of lines 140-196 (the assessment call, the saving
\* of the interaction) raises
mental_health_assessment(data, ai_fault) ==
    IF data.t # "dict" THEN ErrorResponse(500)
    ELSE IF data.responses.t \in {"absent", "none"} THEN ErrorResponse(400)
    ELSE IF PayloadGet(data, "symptoms", ListV(<<>>)).t # "list" THEN ErrorResponse(500)
    ELSE IF data.responses.t # "dict" THEN ErrorResponse(400)
    ELSE IF ~RatingsValid(data.responses) THEN ErrorResponse(400)
    ELSE IF ai_fault THEN FallbackResponse
    ELSE LET ai_response == assess_mental_health(data.responses)
         IN  [status_code |-> 200,
              risk_level |-> ai_response.risk_level,
              professional_referral_suggested |->
                  ai_response.professional_referral_suggested,
              crisis_intervention_needed |-> ai_response.crisis_intervention_needed,
              crisis_resources |-> AttachCrisisResources(ai_response)]

\* the responses the voice route builds, lines 357-360
voice_responses ==
    DictV(<<[key |-> "mood_rating", val |-> IntV(5)],
            [key |-> "anxiety_level", val |-> IntV(5)]>>)

\* the fallback of lines 431-454: the bundle, with success True
VoiceFallbackResponse == [status_code |-> 200, crisis_resources |-> crisis_resources]

\* POST /mental-health/voice; audio_ok: an audio file is given, is valid and is
\* transcribed (lines 304-330); user_id_given: the form holds a user_id
process_voice_symptoms(audio_ok, user_id_given, ai_fault) ==
    IF ~audio_ok \/ ~user_id_given THEN ErrorResponse(400)
    ELSE IF ai_fault THEN VoiceFallbackResponse
    ELSE LET ai_response == assess_mental_health(voice_responses)
         IN  [status_code |-> 200,
              risk_level |-> ai_response.risk_level,
              crisis_intervention_needed |-> ai_response.crisis_intervention_needed,
              crisis_resources |-> AttachCrisisResources(ai_response)]

(***************************************************************************)
(* RiskAssessmentService: the four component scorers                       *)
(***************************************************************************)

emergency_keywords ==
    <<"chest pain", "difficulty breathing", "shortness of breath", "severe bleeding",
      "unconscious", "seizure", "stroke symptoms", "heart attack",
      "severe allergic reaction", "poisoning", "severe burns", "broken bone",
      "head injury", "severe abdominal pain">>

high_risk_keywords ==
    <<"severe pain", "high fever", "persistent vomiting", "dehydration",
      "severe headache", "vision problems", "severe dizziness", "fainting",
      "blood in stool", "blood in urine", "severe rash", "difficulty swallowing">>

moderate_risk_keywords ==
    <<"moderate pain", "fever", "nausea", "vomiting", "diarrhea", "headache",
      "fatigue", "muscle aches", "sore throat", "cough", "runny nose">>

\* min(a, b)
Least(a, b) == IF a <= b THEN a ELSE b

\* ' '.join(symptoms) raises unless symptoms is a list (of strings)
SymptomRaises(symptoms) == symptoms.t # "list"

\* the try branch of _assess_symptom_risk, lines 111-147
SymptomNormal(symptoms) ==
    LET symptom_text == Lower(Join(symptoms.items))
        emergency == ScanKeywords(emergency_keywords, 1, symptom_text, 8,
                                  "Emergency symptom detected: ")
        high == ScanKeywords(high_risk_keywords, 1, symptom_text, 5,
                             "High-risk symptom: ")
        moderate == ScanKeywords(moderate_risk_keywords, 1, symptom_text, 2,
                                 "Moderate-risk symptom: ")
        fever_headache == Contains(symptom_text, "fever")
                          /\ Contains(symptom_text, "headache")
        chest_breath == Contains(symptom_text, "chest pain")
                        /\ Contains(symptom_text, "shortness of breath")
        risk_score == emergency.score + high.score + moderate.score
                      + (IF fever_headache THEN 2 ELSE 0)
                      + (IF chest_breath THEN 6 ELSE 0)
    IN  [score |-> Least(risk_score, 10),
         factors |-> emergency.indicators \o high.indicators \o moderate.indicators
                     \o (IF fever_headache
                         THEN <<"Fever + headache combination increases risk">>
                         ELSE <<>>)
                     \o (IF chest_breath
                         THEN <<"Chest pain + breathing difficulty - high risk combination">>
                         ELSE <<>>),
         symptom_count |-> Len(symptoms.items),
         emergency_symptoms_detected |-> emergency.score > 0]

\* the except branch of _assess_symptom_risk, lines 149-151
SymptomError ==
    [score |-> 5, factors |-> <<"Symptom assessment error">>, symptom_count |-> 0]

\* _assess_symptom_risk taking an empty list for an error
AssessSymptomRiskRejectingEmpty(symptoms) ==
    IF SymptomRaises(symptoms) \/ Len(symptoms.items) = 0 THEN SymptomError
    ELSE SymptomNormal(symptoms)

_assess_symptom_risk(symptoms) ==
    IF SymptomRaises(symptoms) THEN SymptomError ELSE SymptomNormal(symptoms)

\* vital_ranges, in tenths: <<low, high>> of the normal, concerning and critical bands
vital_ranges(vital_name) ==
    CASE vital_name = "heart_rate" ->
             [normal |-> <<600, 1000>>, concerning |-> <<500, 1200>>,
              critical |-> <<400, 1500>>]
      [] vital_name = "systolic_bp" ->
             [normal |-> <<900, 1400>>, concerning |-> <<800, 1600>>,
              critical |-> <<700, 1800>>]
      [] vital_name = "diastolic_bp" ->
             [normal |-> <<600, 900>>, concerning |-> <<500, 1000>>,
              critical |-> <<400, 1100>>]
      [] vital_name = "temperature_f" ->
             [normal |-> <<970, 995>>, concerning |-> <<960, 1010>>,
              critical |-> <<950, 1030>>]
      [] vital_name = "respiratory_rate" ->
             [normal |-> <<120, 200>>, concerning |-> <<100, 240>>,
              critical |-> <<80, 300>>]
      [] vital_name = "oxygen_saturation" ->
             [normal |-> <<950, 1000>>, concerning |-> <<900, 940>>,
              critical |-> <<0, 890>>]

known_vitals ==
    {"heart_rate", "systolic_bp", "diastolic_bp", "temperature_f",
     "respiratory_rate", "oxygen_saturation"}

Digits == "0123456789"

IsDigit(c) == \E d \in 1..Len(Digits) : CharAt(Digits, d) = c

DigitValue(c) == (CHOOSE d \in 1..Len(Digits) : CharAt(Digits, d) = c) - 1

\* the value of a string of digits
RECURSIVE DigitsValue(_)
DigitsValue(s) ==
    IF Len(s) = 0 THEN 0
    ELSE 10 * DigitsValue(SubSeq(s, 1, Len(s) - 1)) + DigitValue(CharAt(s, Len(s)))

AllDigits(s) == \A i \in 1..Len(s) : IsDigit(CharAt(s, i))

\* float(s) for decimal strings "ddd", "ddd.d": the value in tenths, or -1 when
\* float(s) raises ValueError
ParseTenths(s) ==
    LET dot == FindChar(s, 1, ".")
    IN  IF dot = 0
        THEN (IF Len(s) > 0 /\ AllDigits(s) THEN 10 * DigitsValue(s) ELSE -1)
        ELSE LET whole == SubSeq(s, 1, dot - 1)
                 frac == SubSeq(s, dot + 1, Len(s))
             IN  IF Len(whole) > 0 /\ AllDigits(whole) /\ Len(frac) = 1 /\ AllDigits(frac)
                 THEN 10 * DigitsValue(whole) + DigitsValue(frac)
                 ELSE -1

\* str(float) of a value in tenths
FloatStr(v10) == ToString(v10 \div 10) \o "." \o ToString(v10 % 10)

\* str(value) of a JSON scalar, as an f-string prints it
ValueStr(value) ==
    IF value.t = "str" THEN value.s
    ELSE IF value.t = "num" THEN
        (IF value.v10 % 10 = 0 THEN ToString(value.v10 \div 10) ELSE FloatStr(value.v10))
    ELSE "None"

\* a JSON number, in tenths
NumV(v10) == [t |-> "num", v10 |-> v10]

InBand(band, v10) == band[1] <= v10 /\ v10 <= band[2]

\* one iteration of the loop of lines 160-187 on a parsed value
VitalTier(vital_name, v10) ==
    IF vital_name \notin known_vitals THEN [score |-> 0, factors |-> <<>>, abnormal |-> <<>>]
    ELSE LET ranges == vital_ranges(vital_name)
         IN  IF ~InBand(ranges.critical, v10)
             THEN [score |-> 6,
                   factors |-> <<"Critical " \o vital_name \o ": " \o FloatStr(v10)>>,
                   abnormal |-> <<vital_name>>]
             ELSE IF ~InBand(ranges.concerning, v10)
             THEN [score |-> 4,
                   factors |-> <<"Concerning " \o vital_name \o ": " \o FloatStr(v10)>>,
                   abnormal |-> <<vital_name>>]
             ELSE IF ~InBand(ranges.normal, v10)
             THEN [score |-> 2,
                   factors |-> <<"Abnormal " \o vital_name \o ": " \o FloatStr(v10)>>,
                   abnormal |-> <<vital_name>>]
             ELSE [score |-> 0, factors |-> <<>>, abnormal |-> <<>>]

\* one iteration of the loop of lines 160-187
VitalStep(vital_name, value) ==
    IF value.t = "none" \/ (value.t = "str" /\ value.s = "")
    THEN [score |-> 0, factors |-> <<>>, abnormal |-> <<>>]
    ELSE IF value.t = "num" THEN VitalTier(vital_name, value.v10)
    ELSE IF value.t = "int" THEN VitalTier(vital_name, 10 * value.n)
    ELSE IF ParseTenths(value.s) >= 0 THEN VitalTier(vital_name, ParseTenths(value.s))
    ELSE [score |-> 0,
          factors |-> <<"Invalid " \o vital_name \o " value: " \o value.s>>,
          abnormal |-> <<>>]

\* the loop over vitals.items(), from item i on
RECURSIVE VitalLoop(_, _)
VitalLoop(items, i) ==
    IF i > Len(items) THEN [score |-> 0, factors |-> <<>>, abnormal |-> <<>>]
    ELSE LET step == VitalStep(items[i].key, items[i].val)
             rest == VitalLoop(items, i + 1)
         IN  [score |-> step.score + rest.score,
              factors |-> step.factors \o rest.factors,
              abnormal |-> step.abnormal \o rest.abnormal]

\* vitals.items() raises on what is no dict; float(value) raises TypeError
\* (not the ValueError caught inside the loop) on a list
VitalRaises(vitals) ==
    \/ vitals.t # "dict"
    \/ \E i \in 1..Len(vitals.items) : vitals.items[i].val.t = "list"

VitalError ==
    [score |-> 3, factors |-> <<"Vital signs assessment error">>, abnormal_vitals |-> <<>>]

\* _assess_vital_signs_risk without the cap of line 190
AssessVitalSignsRiskUncapped(vitals) ==
    IF VitalRaises(vitals) THEN VitalError
    ELSE LET loop == VitalLoop(vitals.items, 1)
         IN  [score |-> loop.score,
              factors |-> loop.factors,
              abnormal_vitals |-> loop.abnormal]

_assess_vital_signs_risk(vitals) ==
    IF VitalRaises(vitals) THEN VitalError
    ELSE LET loop == VitalLoop(vitals.items, 1)
         IN  [score |-> Least(loop.score, 8),
              factors |-> loop.factors,
              abnormal_vitals |-> loop.abnormal]

BoolV(b) == [t |-> "bool", b |-> b]

\* Python's truth value of a JSON value
Truthy(v) ==
    CASE v.t = "int" -> v.n # 0
      [] v.t = "num" -> v.v10 # 0
      [] v.t = "str" -> v.s # ""
      [] v.t = "bool" -> v.b
      [] v.t \in {"list", "dict"} -> Len(v.items) > 0
      [] OTHER -> FALSE

high_risk_conditions ==
    <<"diabetes", "heart disease", "hypertension", "asthma", "copd",
      "cancer", "immunocompromised", "kidney disease", "liver disease">>

\* any(risk_condition in condition.lower() for risk_condition in high_risk_conditions)
IsHighRiskCondition(condition) ==
    \E k \in 1..Len(high_risk_conditions) :
        Contains(Lower(condition), high_risk_conditions[k])

\* HistoryLoop, adding the weight once however many entries match
HistoryLoopOnce(medical_history, i) ==
    LET matching == {k \in i..Len(medical_history) :
                        IsHighRiskCondition(medical_history[k])}
    IN  [score |-> IF matching = {} THEN 0 ELSE 2,
         factors |-> [k \in 1..Cardinality(matching) |->
                         "High-risk medical condition: "
                         \o medical_history[CHOOSE m \in matching :
                                Cardinality({n \in matching : n <= m}) = k]]]

\* the loop over medical_history, from entry i on
RECURSIVE HistoryLoop(_, _)
HistoryLoop(medical_history, i) ==
    IF i > Len(medical_history) THEN [score |-> 0, factors |-> <<>>]
    ELSE LET rest == HistoryLoop(medical_history, i + 1)
         IN  IF IsHighRiskCondition(medical_history[i])
             THEN [score |-> 2 + rest.score,
                   factors |-> <<"High-risk medical condition: " \o medical_history[i]>>
                               \o rest.factors]
             ELSE rest

\* lines 206-217, for an integer age
AgeRisk(age) ==
    IF ~Truthy(age) THEN [score |-> 0, factors |-> <<>>]
    ELSE IF age.n >= 65
    THEN [score |-> 2, factors |-> <<"Age 65+ increases risk for complications">>]
    ELSE IF age.n <= 2
    THEN [score |-> 3, factors |-> <<"Very young age increases risk">>]
    ELSE IF age.n <= 12
    THEN [score |-> 1, factors |-> <<"Pediatric patient - increased monitoring needed">>]
    ELSE [score |-> 0, factors |-> <<>>]

_get_age_category(age) ==
    IF age <= 2 THEN "infant"
    ELSE IF age <= 12 THEN "child"
    ELSE IF age <= 17 THEN "adolescent"
    ELSE IF age <= 64 THEN "adult"
    ELSE "senior"

\* context.get raises on what is no dict; age >= 65 raises on a string;
\* iterating medical_history raises on None
ContextRaises(context) ==
    \/ context.t # "dict"
    \/ LET age == DictGet(context, "age", NoneV)
       IN  Truthy(age) /\ age.t \in {"str", "list", "dict"}
    \/ DictGet(context, "medical_history", ListV(<<>>)).t # "list"

ContextError ==
    [score |-> 1, factors |-> <<"Context assessment error">>, age_category |-> "unknown"]

_assess_context_risk(context) ==
    IF ContextRaises(context) THEN ContextError
    ELSE LET age == DictGet(context, "age", NoneV)
             age_risk == AgeRisk(age)
             history == HistoryLoop(DictGet(context, "medical_history", ListV(<<>>)).items, 1)
             pregnant == Truthy(DictGet(context, "pregnant", NoneV))
         IN  [score |-> Least(age_risk.score + history.score
                              + (IF pregnant THEN 2 ELSE 0), 6),
              factors |-> age_risk.factors \o history.factors
                          \o (IF pregnant
                              THEN <<"Pregnancy requires special medical consideration">>
                              ELSE <<>>),
              age_category |-> IF Truthy(age) THEN _get_age_category(age.n)
                               ELSE "unknown"]

\* int(pain_scale) raises ValueError on a string that is no integer literal
PainRaises(pain_scale) ==
    /\ Truthy(pain_scale)
    /\ \/ pain_scale.t \notin {"int", "num", "str"}
       \/ pain_scale.t = "str" /\ ~AllDigits(pain_scale.s)

\* int(pain_scale)
PainLevel(pain_scale) ==
    IF pain_scale.t = "int" THEN pain_scale.n
    ELSE IF pain_scale.t = "num" THEN pain_scale.v10 \div 10
    ELSE DigitsValue(pain_scale.s)

\* PainRisk with the boundaries 8 and 6 exclusive
PainRiskExclusive(pain_scale) ==
    IF ~Truthy(pain_scale) THEN [score |-> 0, factors |-> <<>>]
    ELSE LET pain_level == PainLevel(pain_scale)
         IN  IF pain_level > 8
             THEN [score |-> 3,
                   factors |-> <<"Severe pain level: " \o ToString(pain_level) \o "/10">>]
             ELSE IF pain_level > 6
             THEN [score |-> 2,
                   factors |-> <<"Moderate-severe pain: " \o ToString(pain_level) \o "/10">>]
             ELSE [score |-> 0, factors |-> <<>>]

\* lines 253-261
PainRisk(pain_scale) ==
    IF ~Truthy(pain_scale) THEN [score |-> 0, factors |-> <<>>]
    ELSE LET pain_level == PainLevel(pain_scale)
         IN  IF pain_level >= 8
             THEN [score |-> 3,
                   factors |-> <<"Severe pain level: " \o ToString(pain_level) \o "/10">>]
             ELSE IF pain_level >= 6
             THEN [score |-> 2,
                   factors |-> <<"Moderate-severe pain: " \o ToString(pain_level) \o "/10">>]
             ELSE [score |-> 0, factors |-> <<>>]

\* lines 264-270
ProgressionRisk(progression) ==
    IF progression = StrV("Getting worse")
    THEN [score |-> 2, factors |-> <<"Symptoms are worsening">>]
    ELSE IF progression = StrV("Fluctuating")
    THEN [score |-> 1, factors |-> <<"Symptoms are fluctuating">>]
    ELSE [score |-> 0, factors |-> <<>>]

\* lines 273-275
BreathingRisk(breathing_difficulty) ==
    IF breathing_difficulty = StrV("yes")
    THEN [score |-> 4, factors |-> <<"Patient reports breathing difficulty">>]
    ELSE [score |-> 0, factors |-> <<>>]

FollowupRaises(follow_up_data) ==
    \/ follow_up_data.t # "dict"
    \/ PainRaises(DictGet(follow_up_data, "pain_scale", NoneV))

FollowupError == [score |-> 1, factors |-> <<"Follow-up assessment error">>]

\* _assess_followup_risk taking a point off when the symptoms stay the same
AssessFollowupRiskRelieving(follow_up_data) ==
    IF FollowupRaises(follow_up_data) THEN FollowupError
    ELSE LET pain == PainRisk(DictGet(follow_up_data, "pain_scale", NoneV))
             progression == DictGet(follow_up_data, "symptom_progression", NoneV)
             breathing ==
                 BreathingRisk(DictGet(follow_up_data, "breathing_difficulty", NoneV))
             relief == IF progression = StrV("Staying the same") THEN 1 ELSE 0
         IN  [score |-> Least(pain.score + ProgressionRisk(progression).score
                              + breathing.score - relief, 5),
              factors |-> pain.factors \o ProgressionRisk(progression).factors
                          \o breathing.factors]

_assess_followup_risk(follow_up_data) ==
    IF FollowupRaises(follow_up_data) THEN FollowupError
    ELSE LET pain == PainRisk(DictGet(follow_up_data, "pain_scale", NoneV))
             progression ==
                 ProgressionRisk(DictGet(follow_up_data, "symptom_progression", NoneV))
             breathing ==
                 BreathingRisk(DictGet(follow_up_data, "breathing_difficulty", NoneV))
         IN  [score |-> Least(pain.score + progression.score + breathing.score, 5),
              factors |-> pain.factors \o progression.factors \o breathing.factors]

(***************************************************************************)
(* RiskAssessmentService.assess_comprehensive_risk                         *)
(***************************************************************************)

\* _determine_final_risk_level with the thresholds exclusive
DetermineFinalRiskLevelExclusive(total_score) ==
    IF total_score > 15
    THEN [overall_risk_level |-> "CRITICAL", urgency_level |-> "emergency",
          triage_category |-> "immediate", time_to_care |-> "Immediate (0-15 minutes)"]
    ELSE IF total_score > 10
    THEN [overall_risk_level |-> "HIGH", urgency_level |-> "urgent",
          triage_category |-> "urgent", time_to_care |-> "Within 1 hour"]
    ELSE IF total_score > 6
    THEN [overall_risk_level |-> "MODERATE", urgency_level |-> "semi_urgent",
          triage_category |-> "semi_urgent", time_to_care |-> "Within 2-4 hours"]
    ELSE IF total_score > 3
    THEN [overall_risk_level |-> "LOW_MODERATE", urgency_level |-> "less_urgent",
          triage_category |-> "less_urgent", time_to_care |-> "Within 24 hours"]
    ELSE [overall_risk_level |-> "LOW", urgency_level |-> "routine",
          triage_category |-> "non_urgent", time_to_care |-> "Routine care (1-7 days)"]

_determine_final_risk_level(total_score) ==
    IF total_score >= 15
    THEN [overall_risk_level |-> "CRITICAL", urgency_level |-> "emergency",
          triage_category |-> "immediate", time_to_care |-> "Immediate (0-15 minutes)"]
    ELSE IF total_score >= 10
    THEN [overall_risk_level |-> "HIGH", urgency_level |-> "urgent",
          triage_category |-> "urgent", time_to_care |-> "Within 1 hour"]
    ELSE IF total_score >= 6
    THEN [overall_risk_level |-> "MODERATE", urgency_level |-> "semi_urgent",
          triage_category |-> "semi_urgent", time_to_care |-> "Within 2-4 hours"]
    ELSE IF total_score >= 3
    THEN [overall_risk_level |-> "LOW_MODERATE", urgency_level |-> "less_urgent",
          triage_category |-> "less_urgent", time_to_care |-> "Within 24 hours"]
    ELSE [overall_risk_level |-> "LOW", urgency_level |-> "routine",
          triage_category |-> "non_urgent", time_to_care |-> "Routine care (1-7 days)"]

\* the three fixed recommendations of a band (their leading emoji left out)
_generate_recommendations(risk_level) ==
    CASE risk_level = "CRITICAL" ->
             <<"SEEK IMMEDIATE EMERGENCY CARE - Call 911 or go to nearest ER",
               "Do not drive yourself - call ambulance or have someone drive you",
               "If symptoms worsen while waiting, call 911 immediately">>
      [] risk_level = "HIGH" ->
             <<"Seek urgent medical attention within 1 hour",
               "Go to urgent care center or emergency room",
               "Do not wait - this requires prompt medical evaluation">>
      [] risk_level = "MODERATE" ->
             <<"Contact your healthcare provider within 2-4 hours",
               "Monitor symptoms closely for any worsening",
               "Consider urgent care if symptoms worsen">>
      [] risk_level = "LOW_MODERATE" ->
             <<"Schedule appointment with healthcare provider within 24 hours",
               "Monitor symptoms and seek care if they worsen",
               "Rest, stay hydrated, and follow basic self-care measures">>
      [] OTHER ->
             <<"Home care and monitoring appropriate",
               "Schedule routine appointment if symptoms persist",
               "Rest, fluids, and over-the-counter remedies as appropriate">>

\* a component that was not invoked has no key in assessment_components
NotInvoked == [score |-> 0, factors |-> <<>>, invoked |-> FALSE]

\* the except branch of assess_comprehensive_risk, lines 97-106
RiskFailSafe ==
    [overall_risk_level |-> "HIGH",
     risk_score |-> 10,
     risk_factors |-> <<"Assessment error - defaulting to high risk for safety">>,
     recommendations |->
         <<"Seek immediate medical attention due to assessment system error">>,
     urgency_level |-> "urgent",
     error |-> TRUE]

\* the try branch, lines 46-95
RiskNormal(symptoms, vitals, user_context, follow_up_data) ==
    LET symptom_risk == _assess_symptom_risk(symptoms)
        vital_risk == IF Truthy(vitals) THEN _assess_vital_signs_risk(vitals)
                      ELSE NotInvoked
        context_risk == IF Truthy(user_context) THEN _assess_context_risk(user_context)
                        ELSE NotInvoked
        followup_risk == IF Truthy(follow_up_data)
                         THEN _assess_followup_risk(follow_up_data)
                         ELSE NotInvoked
        risk_score == symptom_risk.score + vital_risk.score + context_risk.score
                      + followup_risk.score
        final_assessment == _determine_final_risk_level(risk_score)
    IN  [overall_risk_level |-> final_assessment.overall_risk_level,
         risk_score |-> risk_score,
         risk_factors |-> symptom_risk.factors \o vital_risk.factors
                          \o context_risk.factors \o followup_risk.factors,
         recommendations |-> _generate_recommendations(final_assessment.overall_risk_level),
         urgency_level |-> final_assessment.urgency_level,
         triage_category |-> final_assessment.triage_category,
         time_to_care |-> final_assessment.time_to_care,
         assessment_components |->
             [symptoms |-> symptom_risk, vitals |-> vital_risk,
              context |-> context_risk, follow_up |-> followup_risk]]

\* assess_comprehensive_risk keeping its running score on the instance: the
\* score of the call before is added to the score of this one
AssessCarryingScore(args) ==
    LET carried == IF op = "assess_comprehensive_risk" THEN ret.risk_score ELSE 0
        fresh == IF args.aggregator_fault THEN RiskFailSafe
                 ELSE RiskNormal(args.symptoms, args.vitals, args.user_context,
                                 args.follow_up_data)
    IN  [fresh EXCEPT !.risk_score = @ + carried]

\* aggregator_fault: an exception raised in the try block outside the four
\* component scorers, which catch their own
assess_comprehensive_risk(args) ==
    IF args.aggregator_fault THEN RiskFailSafe
    ELSE RiskNormal(args.symptoms, args.vitals, args.user_context, args.follow_up_data)

(***************************************************************************)
(* The routes that call the aggregator (api/integration_routes.py)         *)
(***************************************************************************)

\* generate_response(success=True, data=...): status 200 with the data
SuccessResponse(data) == [status_code |-> 200, success |-> TRUE, data |-> data]

\* POST /risk-assessment/comprehensive; data holds the four arguments the
\* body gives, is_json: the request carries JSON, has_symptoms: the body has
\* the key 'symptoms'
comprehensive_risk_assessment(data, is_json, has_symptoms) ==
    IF ~is_json THEN ErrorResponse(400)
    ELSE IF ~has_symptoms THEN ErrorResponse(400)
    ELSE SuccessResponse(assess_comprehensive_risk(data))

\* the user_context the enhanced route builds from the flat body, lines 286-291
EnhancedUserContext(data) ==
    LET given == IF data.user_context.t = "dict" THEN data.user_context ELSE DictV(<<>>)
    IN  DictV(<<[key |-> "age", val |-> DictGet(given, "age", NoneV)],
                [key |-> "gender", val |-> NoneV],
                [key |-> "medical_history",
                 val |-> DictGet(given, "medical_history", ListV(<<>>))],
                [key |-> "medications", val |-> ListV(<<>>)]>>)

\* firebase_service.save_enhanced_assessment, line 317: FirebaseService
\* defines no such method, so the call raises AttributeError
SaveEnhancedAssessmentRaises == TRUE

\* response_data, lines 320-331: the keys of the assessment are read by
\* index, so an assessment lacking one of them raises KeyError
enhanced_response_data(risk_assessment) ==
    IF ~({"overall_risk_level", "risk_score", "urgency_level",
          "recommendations", "triage_category", "time_to_care",
          "risk_factors", "assessment_components"}
             \subseteq DOMAIN risk_assessment)
    THEN ErrorResponse(500)
    ELSE SuccessResponse(
             [risk_level |-> risk_assessment.overall_risk_level,
              risk_score |-> risk_assessment.risk_score,
              urgency_level |-> risk_assessment.urgency_level,
              recommendations |-> risk_assessment.recommendations,
              triage_category |-> risk_assessment.triage_category,
              time_to_care |-> risk_assessment.time_to_care,
              risk_factors |-> risk_assessment.risk_factors,
              vitals_analysis |-> risk_assessment.assessment_components.vitals])

\* POST /assessment/enhanced; authorized: require_auth accepts the token;
\* the assessment is made (line 294), then saved (line 317), then answered
enhanced_symptom_assessment(data, is_json, authorized, has_symptoms) ==
    IF ~is_json THEN ErrorResponse(400)
    ELSE IF ~authorized THEN ErrorResponse(401)
    ELSE IF ~has_symptoms THEN ErrorResponse(400)
    ELSE IF SaveEnhancedAssessmentRaises THEN ErrorResponse(500)
    ELSE enhanced_response_data(
             assess_comprehensive_risk(
                 [data EXCEPT !.user_context = EnhancedUserContext(data),
                              !.follow_up_data = NoneV]))

(***************************************************************************)
(* ConversationService.generate_follow_up_questions                        *)
(* (services/conversation_service.py); a question is named by its id       *)
(***************************************************************************)

\* the four triggered blocks in the order of lines 29-112: the words that
\* trigger a block and the questions it appends
question_blocks ==
    <<[keywords |-> <<"pain", "ache", "hurt", "sore", "tender", "sharp", "dull">>,
       questions |-> <<"pain_scale", "pain_type", "pain_triggers">>],
      [keywords |-> <<"fever", "temperature", "hot", "chills", "sweating">>,
       questions |-> <<"temperature_reading", "fever_duration">>],
      [keywords |-> <<"cough", "breathing", "shortness", "wheeze", "chest">>,
       questions |-> <<"breathing_difficulty", "cough_type">>],
      [keywords |-> <<"nausea", "vomit", "stomach", "abdominal", "diarrhea",
                      "constipation">>,
       questions |-> <<"last_meal", "digestive_frequency">>]>>

\* the block appended in every case, lines 114-135
general_questions == <<"recent_travel", "medications", "symptom_progression">>

\* the questions of the blocks from block b on, for the joined symptom text
RECURSIVE TriggeredQuestions(_, _)
TriggeredQuestions(text, b) ==
    IF b > Len(question_blocks) THEN <<>>
    ELSE (IF \E k \in 1..Len(question_blocks[b].keywords) :
                Contains(text, question_blocks[b].keywords[k])
          THEN question_blocks[b].questions ELSE <<>>)
         \o TriggeredQuestions(text, b + 1)

\* True when the try block raises: initial_assessment.get on a value that is
\* no dict (line 24), ' '.join on a value that is no list of strings (line 31)
QuestionsRaise(initial_assessment, symptoms) ==
    initial_assessment.t # "dict" \/ symptoms.t # "list"

\* the except branch, lines 149-156
QuestionsError ==
    [success |-> FALSE, has_follow_up |-> FALSE, questions |-> <<>>, error |-> TRUE]

\* an exception that reaches the caller
Raised == [raised |-> TRUE]

\* generate_follow_up_questions without its except branch
GenerateUnguarded(initial_assessment, symptoms) ==
    IF QuestionsRaise(initial_assessment, symptoms) THEN Raised
    ELSE [success |-> TRUE, has_follow_up |-> TRUE, questions |-> general_questions]

\* generate_follow_up_questions with the general block put first
GenerateGeneralFirst(initial_assessment, symptoms) ==
    IF QuestionsRaise(initial_assessment, symptoms) THEN QuestionsError
    ELSE LET follow_up_questions ==
                 general_questions
                 \o TriggeredQuestions(Lower(Join(symptoms.items)), 1)
             prioritized_questions ==
                 SubSeq(follow_up_questions, 1, Least(5, Len(follow_up_questions)))
         IN  [success |-> TRUE,
              has_follow_up |-> Len(prioritized_questions) > 0,
              questions |-> prioritized_questions,
              context |-> [assessment_id |->
                               DictGet(initial_assessment, "assessment_id", NoneV),
                           symptoms_analyzed |-> symptoms,
                           question_round |-> 1],
              total_questions |-> Len(prioritized_questions),
              estimated_time_minutes |-> [halves |-> Len(prioritized_questions)]]

\* estimated_time_minutes is len * 0.5, held as a count of half minutes
generate_follow_up_questions(initial_assessment, symptoms) ==
    IF QuestionsRaise(initial_assessment, symptoms) THEN QuestionsError
    ELSE LET follow_up_questions ==
                 TriggeredQuestions(Lower(Join(symptoms.items)), 1)
                 \o general_questions
             prioritized_questions ==
                 SubSeq(follow_up_questions, 1, Least(5, Len(follow_up_questions)))
         IN  [success |-> TRUE,
              has_follow_up |-> Len(prioritized_questions) > 0,
              questions |-> prioritized_questions,
              context |-> [assessment_id |->
                               DictGet(initial_assessment, "assessment_id", NoneV),
                           symptoms_analyzed |-> symptoms,
                           question_round |-> 1],
              total_questions |-> Len(prioritized_questions),
              estimated_time_minutes |-> [halves |-> Len(prioritized_questions)]]

(***************************************************************************)
(* ModelManagementService (services/model_management_service.py): the      *)
(* request threads call start_model_loading and unload_model on the one    *)
(* instance of the module, and each loading runs in a background thread.   *)
(* No lock is taken anywhere, so the threads interleave statement by       *)
(* statement.                                                              *)
(***************************************************************************)

\* the request threads that call the service at the same time
Requests == {"r1", "r2"}

\* most background loading threads alive at once
MaxLoaders == 2

\* the progress values of loading_steps, lines 136-143
loading_steps == <<10, 25, 45, 70, 90, 100>>

\* __init__, lines 25-32, with no thread running; model_info is {} (line 27)
\* or the description of the loaded model (lines 159-172)
InitModel ==
    /\ model_status = "not_loaded"
    /\ loading_progress = 0
    /\ memory_usage = 0
    /\ model_info = [loaded |-> FALSE]
    /\ loaders = [i \in 1..MaxLoaders |-> 0]
    /\ pc = [r \in Requests |-> "idle"]

\* the dict a call of the service returns
ModelResponse(success, status) == [success |-> success, status |-> status]

\* start_model_loading, lines 80-103: the checks of the status and of the
\* available memory; enough_memory: psutil reports at least 6 GB
StartCheck(r) ==
    /\ pc[r] = "idle"
    /\ \E enough_memory \in BOOLEAN :
          IF model_status = "loading"
          THEN /\ op' = "start_model_loading"
               /\ ret' = ModelResponse(FALSE, "loading")
               /\ UNCHANGED pc
          ELSE IF model_status = "ready"
          THEN /\ op' = "start_model_loading"
               /\ ret' = ModelResponse(TRUE, "ready")
               /\ UNCHANGED pc
          ELSE IF ~enough_memory
          THEN /\ op' = "start_model_loading"
               /\ ret' = ModelResponse(FALSE, "insufficient_memory")
               /\ UNCHANGED pc
          ELSE /\ pc' = [pc EXCEPT ![r] = "start_launch"]
               /\ UNCHANGED <<op, ret>>
    /\ UNCHANGED <<payload, risk_args, all_text, calls, model_status,
                   loading_progress, memory_usage, model_info, loaders>>

\* start_model_loading, lines 105-120: the status is set and the thread is
\* started; the thread takes the first free place among the loaders
StartLaunch(r) ==
    /\ pc[r] = "start_launch"
    /\ \E i \in 1..MaxLoaders :
          /\ loaders[i] = 0
          /\ \A j \in 1..(i - 1) : loaders[j] # 0
          /\ loaders' = [loaders EXCEPT ![i] = 1]
    /\ model_status' = "loading"
    /\ loading_progress' = 0
    /\ pc' = [pc EXCEPT ![r] = "idle"]
    /\ op' = "start_model_loading"
    /\ ret' = ModelResponse(TRUE, "loading")
    /\ UNCHANGED <<payload, risk_args, all_text, calls, memory_usage, model_info>>

\* _load_model_background, lines 145-152: one turn of the loop
LoaderStep(i) ==
    /\ loaders[i] \in 1..Len(loading_steps)
    /\ loading_progress' = loading_steps[loaders[i]]
    /\ memory_usage' = IF loading_steps[loaders[i]] <= 90
                       THEN loading_steps[loaders[i]] ELSE memory_usage
    /\ loaders' = [loaders EXCEPT ![i] = @ + 1]
    /\ UNCHANGED <<payload, risk_args, op, all_text, ret, calls, model_status,
                   model_info, pc>>

\* _load_model_background, lines 154-174: the loading is complete and the
\* thread ends
LoaderFinish(i) ==
    /\ loaders[i] = Len(loading_steps) + 1
    /\ model_status' = "ready"
    /\ loading_progress' = 100
    /\ memory_usage' = 100
    /\ model_info' = [loaded |-> TRUE, name |-> "Llama3-OpenBioLLM-8B"]
    /\ loaders' = [loaders EXCEPT ![i] = 0]
    /\ UNCHANGED <<payload, risk_args, op, all_text, ret, calls, pc>>

\* unload_model, lines 186-198: the checks of the status
UnloadCheck(r) ==
    /\ pc[r] = "idle"
    /\ IF model_status = "not_loaded"
       THEN /\ op' = "unload_model"
            /\ ret' = ModelResponse(TRUE, "not_loaded")
            /\ UNCHANGED pc
       ELSE IF model_status = "loading"
       THEN /\ op' = "unload_model"
            /\ ret' = ModelResponse(FALSE, "loading")
            /\ UNCHANGED pc
       ELSE /\ pc' = [pc EXCEPT ![r] = "unload_mark"]
            /\ UNCHANGED <<op, ret>>
    /\ UNCHANGED <<payload, risk_args, all_text, calls, model_status,
                   loading_progress, memory_usage, model_info, loaders>>

\* unload_model, lines 200-202: the status is set and the thread sleeps
UnloadMark(r) ==
    /\ pc[r] = "unload_mark"
    /\ model_status' = "unloading"
    /\ pc' = [pc EXCEPT ![r] = "unload_sleep"]
    /\ UNCHANGED <<payload, risk_args, op, all_text, ret, calls, loading_progress,
                   memory_usage, model_info, loaders>>

\* unload_model, lines 204-216: after the sleep every field is reset
UnloadReset(r) ==
    /\ pc[r] = "unload_sleep"
    /\ model_status' = "not_loaded"
    /\ loading_progress' = 0
    /\ memory_usage' = 0
    /\ model_info' = [loaded |-> FALSE]
    /\ pc' = [pc EXCEPT ![r] = "idle"]
    /\ op' = "unload_model"
    /\ ret' = ModelResponse(TRUE, "not_loaded")
    /\ UNCHANGED <<payload, risk_args, all_text, calls, loaders>>

(***************************************************************************)
(* The inputs                                                              *)
(***************************************************************************)

\* longest symptom list of a payload or of a call
MaxSymptoms == 2

\* all sequences over S of length at most n
SeqsUpTo(S, n) == UNION {[1..k -> S] : k \in 0..n}

\* the (key, value) pair of a dict, none when the key is absent
Pair(key, val) == IF val.t = "absent" THEN <<>> ELSE <<[key |-> key, val |-> val]>>

MkResponses(mood, anxiety, stress) ==
    DictV(Pair("mood_rating", mood) \o Pair("anxiety_level", anxiety)
          \o Pair("stress_level", stress))

MkPayload(responses, symptoms, triggers, support_system) ==
    [t |-> "dict", responses |-> responses, symptoms |-> symptoms,
     triggers |-> triggers, support_system |-> support_system]

\* a text that holds every keyword of every tier
EveryKeyword ==
    Join(risk_keywords.crisis) \o " " \o Join(risk_keywords.high_risk) \o " "
    \o Join(risk_keywords.moderate_risk)

SymptomTexts ==
    {"suicidal thoughts", "feeling sad", "worried about work", "want to hurt myself",
     "<script>alert(1)</script>"}

SupportChoices ==
    {Absent, StrV(""),
     StrV("have some friends but feeling overwhelmed"),
     StrV("I feel like ending it all, no one cares"),
     StrV("so SAD, thinking about suicide"),
     StrV("eval(document.cookie)"),
     StrV("<script>alert(1)"),
     StrV("<script>onload\n=</script>")}

TextResponses ==
    {MkResponses(IntV(4), IntV(6), Absent),
     MkResponses(StrV("<script>alert(\"xss\")</script>"), Absent, Absent)}

TextPayloads ==
    {MkPayload(r, ListV(sy), Absent, su) :
        r \in TextResponses, sy \in SeqsUpTo(SymptomTexts, MaxSymptoms),
        su \in SupportChoices}

MoodChoices == {Absent, IntV(1), IntV(3), IntV(4), StrV("low")}
AnxietyChoices == {Absent, IntV(5), IntV(7), IntV(8), IntV(10)}
StressChoices == {Absent, IntV(7), IntV(8), IntV(10)}

RatingPayloads ==
    {MkPayload(MkResponses(m, a, st), ListV(sy), Absent, su) :
        m \in MoodChoices, a \in AnxietyChoices, st \in StressChoices,
        sy \in {<<>>, <<"suicidal thoughts">>, <<"feeling sad", "worried about work">>},
        su \in {Absent, StrV("have some friends but feeling overwhelmed")}}

\* every keyword at once, with and without the numeric overlays
KeywordPayloads ==
    {MkPayload(MkResponses(m, IntV(10), st), ListV(sy), Absent, StrV(EveryKeyword)) :
        m \in {IntV(1), IntV(4)}, st \in {Absent, IntV(10)},
        sy \in {<<>>, <<"feeling sad">>}}

TriggerPayloads ==
    {MkPayload(r, sy, tr, su) :
        r \in {Absent, NoneV, MkResponses(IntV(2), IntV(2), Absent)},
        sy \in {Absent, NoneV, ListV(<<"can't sleep">>)},
        tr \in {NoneV, ListV(<<>>), ListV(<<"stressed", "javascript:alert(\"hack\")">>),
                ListV(<<"PANIC", "onload=malicious()">>)},
        su \in {Absent, NoneV, StrV("lonely")}}

\* a payload that is no dict at all
NoPayload == NoneV

Payloads ==
    TextPayloads \cup RatingPayloads \cup KeywordPayloads \cup TriggerPayloads
    \cup {NoPayload}

\* the value of ret before any operation has run
NoReturn == [none |-> TRUE]

\* assess_comprehensive_risk(symptoms=[]) with nothing else
NoRiskArgs ==
    [symptoms |-> ListV(<<>>), vitals |-> NoneV, user_context |-> NoneV,
     follow_up_data |-> NoneV, aggregator_fault |-> FALSE]

(***************************************************************************)
(* The mental-health service: a caller holding a payload calls the         *)
(* sanitizer, the crisis detector and the route in any order               *)
(***************************************************************************)

Init ==
    /\ payload \in Payloads
    /\ risk_args = NoRiskArgs
    /\ op = "init"
    /\ all_text = ""
    /\ ret = NoReturn
    /\ calls = <<>>
    /\ InitModel

\* payload = sanitize_mental_health_input(payload)
SanitizeMentalHealthInput ==
    /\ payload' = sanitize_mental_health_input(payload)
    /\ op' = "sanitize_mental_health_input"
    /\ all_text' = ""
    /\ ret' = payload'
    /\ UNCHANGED <<risk_args, calls, model_vars>>

\* assess_crisis_risk(payload)
AssessCrisisRisk ==
    /\ op' = "assess_crisis_risk"
    /\ all_text' = IF CrisisRaises(payload) THEN "" ELSE AllText(payload)
    /\ ret' = assess_crisis_risk(payload)
    /\ UNCHANGED <<payload, risk_args, calls, model_vars>>

\* POST /mental-health with the payload as its JSON body
MentalHealthAssessment ==
    \E ai_fault \in BOOLEAN :
        /\ op' = "mental_health_assessment"
        /\ all_text' = ""
        /\ ret' = mental_health_assessment(payload, ai_fault)
        /\ UNCHANGED <<payload, risk_args, calls, model_vars>>

\* POST /mental-health/voice with an audio file and a form
ProcessVoiceSymptoms ==
    \E audio_ok \in BOOLEAN, user_id_given \in BOOLEAN, ai_fault \in BOOLEAN :
        /\ op' = "process_voice_symptoms"
        /\ all_text' = ""
        /\ ret' = process_voice_symptoms(audio_ok, user_id_given, ai_fault)
        /\ UNCHANGED <<payload, risk_args, calls, model_vars>>

Next ==
    \/ SanitizeMentalHealthInput
    \/ AssessCrisisRisk
    \/ MentalHealthAssessment
    \/ ProcessVoiceSymptoms

Spec == Init /\ [][Next]_vars

(***************************************************************************)
(* The risk aggregator: a caller holding the four arguments calls          *)
(* assess_comprehensive_risk                                               *)
(***************************************************************************)

Entry(key, val) == <<[key |-> key, val |-> val]>>

RiskSymptomChoices ==
    {ListV(<<>>), ListV(<<"mild cough">>), ListV(<<"high fever", "headache">>),
     ListV(<<"Chest pain", "shortness of breath">>), NoneV}

RiskVitalChoices ==
    {NoneV, DictV(<<>>),
     DictV(Entry("temperature_f", NumV(1040))),
     DictV(Entry("heart_rate", StrV("abc")) \o Entry("temperature_f", StrV("98.6"))
           \o Entry("oxygen_saturation", IntV(92))),
     DictV(Entry("heart_rate", ListV(<<>>)) \o Entry("temperature_f", NumV(1040))),
     DictV(Entry("heart_rate", IntV(130)) \o Entry("temperature_f", IntV(104)))}

RiskContextChoices ==
    {NoneV,
     DictV(Entry("age", IntV(70))),
     DictV(Entry("age", IntV(1)) \o Entry("medical_history", ListV(<<"Type 2 Diabetes">>))),
     DictV(Entry("age", StrV("abc")) \o Entry("pregnant", BoolV(TRUE))),
     DictV(Entry("age", IntV(30)) \o Entry("medical_history", NoneV))}

RiskFollowupChoices ==
    {NoneV,
     DictV(Entry("pain_scale", IntV(9)) \o Entry("breathing_difficulty", StrV("yes"))),
     DictV(Entry("pain_scale", StrV("abc")) \o Entry("breathing_difficulty", StrV("yes"))),
     DictV(Entry("pain_scale", StrV("7")) \o Entry("symptom_progression", StrV("Fluctuating")))}

\* the four arguments in combination, with and without a fault of the aggregator
CrossArgs ==
    [symptoms : RiskSymptomChoices, vitals : RiskVitalChoices,
     user_context : RiskContextChoices, follow_up_data : RiskFollowupChoices,
     aggregator_fault : BOOLEAN]

\* a call that gives one argument besides the symptoms
MkRiskArgs(symptoms, vitals, user_context, follow_up_data) ==
    [symptoms |-> symptoms, vitals |-> vitals, user_context |-> user_context,
     follow_up_data |-> follow_up_data, aggregator_fault |-> FALSE]

RiskSymptomTexts ==
    {"chest pain", "Difficulty Breathing", "shortness of breath", "fever",
     "headache", "severe pain", "mild cough", "severe"}

\* symptom lists of every length up to MaxSymptoms
SymptomArgs ==
    {MkRiskArgs(ListV(sy), NoneV, NoneV, NoneV) :
        sy \in SeqsUpTo(RiskSymptomTexts, MaxSymptoms)}

\* the values at and next to the edges of the three bands of a vital, in tenths
EdgeValues(vital_name) ==
    LET ranges == vital_ranges(vital_name)
        edges == {ranges.normal[1], ranges.normal[2], ranges.concerning[1],
                  ranges.concerning[2], ranges.critical[1], ranges.critical[2]}
    IN  {v \in UNION {{e - 1, e, e + 1} : e \in edges} : v >= 0}

\* a reading of one known vital, as a JSON number or as its decimal string
OneVitalChoices ==
    UNION {{DictV(Entry(name, NumV(v))) : v \in EdgeValues(name)}
           \cup {DictV(Entry(name, StrV(FloatStr(v)))) : v \in EdgeValues(name)} :
              name \in known_vitals}

\* a reading of two vitals: the first unparsable, unknown, empty or a number
TwoVitalChoices ==
    {DictV(Entry(first[1], first[2]) \o Entry("temperature_f", second)) :
        first \in {<<"heart_rate", StrV("abc")>>, <<"heart_rate", StrV("")>>,
                   <<"heart_rate", NoneV>>, <<"heart_rate", IntV(130)>>,
                   <<"blood_sugar", IntV(300)>>, <<"systolic_bp", StrV("12O")>>},
        second \in {IntV(104), NumV(986), StrV("101.5"), StrV("hot")}}

VitalArgs ==
    {MkRiskArgs(ListV(<<"mild cough">>), v, NoneV, NoneV) :
        v \in OneVitalChoices \cup TwoVitalChoices}

\* a context by age, medical history and pregnancy flag
ContextArgs ==
    LET AgeChoices ==
            {Absent, IntV(0), IntV(1), IntV(2), IntV(3), IntV(12), IntV(13), IntV(40),
             IntV(64), IntV(65), IntV(90)}
        HistoryChoices ==
            {Absent, ListV(<<>>), ListV(<<"Type 2 Diabetes">>),
             ListV(<<"seasonal allergies">>), ListV(<<"asthma", "Heart Disease">>),
             ListV(<<"diabetes and hypertension", "migraine", "COPD">>),
             ListV(<<"asthma", "cancer", "kidney disease", "liver disease">>)}
        PregnantChoices == {Absent, BoolV(TRUE), BoolV(FALSE)}
    IN  {MkRiskArgs(ListV(<<>>), NoneV,
                    DictV(Pair("age", a) \o Pair("medical_history", h)
                          \o Pair("pregnant", p)),
                    NoneV) :
            a \in AgeChoices, h \in HistoryChoices, p \in PregnantChoices}

\* a follow-up answer set by pain scale, breathing difficulty and progression
FollowupArgs ==
    LET PainChoices ==
            {Absent, IntV(0), IntV(5), IntV(6), IntV(7), IntV(8), IntV(10), StrV("7"),
             StrV("abc")}
        BreathingChoices == {Absent, StrV("yes"), StrV("no")}
        ProgressionChoices ==
            {Absent, StrV("Getting worse"), StrV("Fluctuating"), StrV("Staying the same")}
    IN  {MkRiskArgs(ListV(<<>>), NoneV, NoneV,
                    DictV(Pair("pain_scale", ps) \o Pair("breathing_difficulty", b)
                          \o Pair("symptom_progression", g))) :
            ps \in PainChoices, b \in BreathingChoices, g \in ProgressionChoices}

RiskArgs == CrossArgs \cup SymptomArgs \cup VitalArgs \cup ContextArgs \cup FollowupArgs

InitRisk ==
    /\ payload = NoPayload
    /\ risk_args \in RiskArgs
    /\ op = "init"
    /\ all_text = ""
    /\ ret = NoReturn
    /\ calls = <<>>
    /\ InitModel

\* assess_comprehensive_risk(symptoms, vitals, user_context, follow_up_data)
AssessComprehensiveRisk ==
    /\ op' = "assess_comprehensive_risk"
    /\ ret' = assess_comprehensive_risk(risk_args)
    /\ UNCHANGED <<payload, risk_args, all_text, calls, model_vars>>

\* POST /risk-assessment/comprehensive with the arguments as its JSON body
ComprehensiveRiskAssessment ==
    \E is_json \in BOOLEAN, has_symptoms \in BOOLEAN :
        /\ op' = "comprehensive_risk_assessment"
        /\ ret' = comprehensive_risk_assessment(risk_args, is_json, has_symptoms)
        /\ UNCHANGED <<payload, risk_args, all_text, calls, model_vars>>

\* POST /assessment/enhanced with the symptoms, vitals, age and history as body
EnhancedSymptomAssessment ==
    \E is_json \in BOOLEAN, authorized \in BOOLEAN, has_symptoms \in BOOLEAN :
        /\ op' = "enhanced_symptom_assessment"
        /\ ret' = enhanced_symptom_assessment(risk_args, is_json, authorized,
                                              has_symptoms)
        /\ UNCHANGED <<payload, risk_args, all_text, calls, model_vars>>

NextRisk ==
    \/ AssessComprehensiveRisk
    \/ ComprehensiveRiskAssessment
    \/ EnhancedSymptomAssessment

SpecRisk == InitRisk /\ [][NextRisk]_vars

(***************************************************************************)
(* The engine's entry points: a caller holding a payload and arguments of  *)
(* any type calls the sanitizer, the crisis detector, the aggregator and   *)
(* the follow-up question generator in any order                           *)
(***************************************************************************)

\* lists of symptom strings that trigger each block of questions, several
\* or none, and arguments that are null or wrongly typed
EngineArgs ==
    LET ConversationTexts ==
            {"sharp pain in stomach", "fever", "chest pain", "Dry COUGH", "nausea",
             "headache", "rash", "sore throat and chills"}
    IN  {MkRiskArgs(ListV(sy), NoneV, NoneV, NoneV) :
            sy \in SeqsUpTo(ConversationTexts, MaxSymptoms)}
        \cup {MkRiskArgs(IntV(5), NoneV, NoneV, NoneV)}
        \cup {a \in CrossArgs : a.symptoms = NoneV}

\* the payload is of the right or of a wrong type
InitEngine ==
    /\ \/ /\ payload \in TriggerPayloads
                         \cup {NoPayload, StrV("<script>x</script>"), IntV(5)}
          /\ risk_args = NoRiskArgs
       \/ payload = NoPayload /\ risk_args \in EngineArgs
    /\ op = "init"
    /\ all_text = ""
    /\ ret = NoReturn
    /\ calls = <<>>
    /\ InitModel

\* generate_follow_up_questions(initial_assessment, symptoms) on the symptoms
\* the caller holds
GenerateFollowUpQuestions ==
    \E initial_assessment \in
          {NoneV, StrV("a1"), DictV(<<>>), DictV(Entry("assessment_id", StrV("a1")))} :
        /\ op' = "generate_follow_up_questions"
        /\ ret' = generate_follow_up_questions(initial_assessment, risk_args.symptoms)
        /\ UNCHANGED <<payload, risk_args, all_text, calls, model_vars>>

NextEngine ==
    \/ SanitizeMentalHealthInput
    \/ AssessCrisisRisk
    \/ AssessComprehensiveRisk
    \/ GenerateFollowUpQuestions

SpecEngine == InitEngine /\ [][NextEngine]_vars

(***************************************************************************)
(* One RiskAssessmentService instance called again and again               *)
(***************************************************************************)

\* most calls made on the instance
MaxCalls == 3

\* fresh instances of the services, before any call
InitService ==
    /\ payload = NoPayload
    /\ risk_args = NoRiskArgs
    /\ op = "init"
    /\ all_text = ""
    /\ ret = NoReturn
    /\ calls = <<>>
    /\ InitModel

\* the caller calls assess_comprehensive_risk with arguments of its choice
CallAssessComprehensiveRisk ==
    /\ Len(calls) < MaxCalls
    /\ \E args \in
             {NoRiskArgs,
              MkRiskArgs(ListV(<<"chest pain", "fever">>),
                         DictV(Entry("heart_rate", IntV(130))), NoneV, NoneV),
              MkRiskArgs(ListV(<<"mild cough">>), NoneV,
                         DictV(Entry("age", IntV(70))
                               \o Entry("medical_history", ListV(<<"asthma">>))),
                         DictV(Entry("pain_scale", IntV(9)))),
              MkRiskArgs(NoneV, DictV(Entry("heart_rate", StrV("abc"))), NoneV, NoneV),
              [NoRiskArgs EXCEPT !.aggregator_fault = TRUE]} :
          /\ risk_args' = args
          /\ ret' = assess_comprehensive_risk(args)
          /\ calls' = Append(calls, [args |-> args, result |-> ret'])
    /\ op' = "assess_comprehensive_risk"
    /\ UNCHANGED <<payload, all_text, model_vars>>

NextCalls == CallAssessComprehensiveRisk

SpecCalls == InitService /\ [][NextCalls]_vars

(***************************************************************************)
(* The model service under concurrent requests                             *)
(***************************************************************************)

NextModelService ==
    \/ \E r \in Requests : StartCheck(r)
    \/ \E r \in Requests : StartLaunch(r)
    \/ \E i \in 1..MaxLoaders : LoaderStep(i)
    \/ \E i \in 1..MaxLoaders : LoaderFinish(i)
    \/ \E r \in Requests : UnloadCheck(r)
    \/ \E r \in Requests : UnloadMark(r)
    \/ \E r \in Requests : UnloadReset(r)

SpecModelService == InitService /\ [][NextModelService]_vars

(***************************************************************************)
(* Properties                                                              *)
(***************************************************************************)

\* a component scorer that was invoked raised internally, or the aggregator did
ScoringFault(args) ==
    \/ args.aggregator_fault
    \/ SymptomRaises(args.symptoms)
    \/ Truthy(args.vitals) /\ VitalRaises(args.vitals)
    \/ Truthy(args.user_context) /\ ContextRaises(args.user_context)
    \/ Truthy(args.follow_up_data) /\ FollowupRaises(args.follow_up_data)

\* s occurs among the entries of seq
InSeq(seq, s) == \E i \in 1..Len(seq) : seq[i] = s

\* C1: whenever a component scorer or the aggregator hits an internal
\* exception, assess_comprehensive_risk returns the fail-safe-high outcome
\* (HIGH, risk_score 10, urgent, with the assessment-error factor), never a
\* LOW, LOW_MODERATE or MODERATE result.
C1_FaultFailsSafeHigh ==
    (op = "assess_comprehensive_risk" /\ ScoringFault(risk_args))
        => /\ ret.overall_risk_level = "HIGH"
           /\ ret.risk_score = 10
           /\ ret.urgency_level = "urgent"
           /\ InSeq(ret.risk_factors,
                    "Assessment error - defaulting to high risk for safety")

\* the payload of the spec's example: ratings 1 / 10 / 10, "suicidal thoughts"
SuicidalThoughtsPayload ==
    MkPayload(MkResponses(IntV(1), IntV(10), IntV(10)),
              ListV(<<"suicidal thoughts">>), Absent, Absent)

\* C2: assess_crisis_risk on responses {mood_rating: 1, anxiety_level: 10,
\* stress_level: 10} and symptoms ["suicidal thoughts"] returns
\* risk_score >= 17, risk_level crisis, crisis_intervention_needed and
\* professional_referral_suggested.
C2_SuicidalThoughtsIsCrisis ==
    (op = "assess_crisis_risk" /\ payload = SuicidalThoughtsPayload)
        => /\ ret.risk_score >= 17
           /\ ret.risk_level = "crisis"
           /\ ret.crisis_intervention_needed
           /\ ret.professional_referral_suggested

\* some crisis keyword occurs in the free text of the payload
HasCrisisKeyword(p) ==
    \E k \in 1..Len(risk_keywords.crisis) : Contains(AllText(p), risk_keywords.crisis[k])

\* C3: the risk_level and crisis_intervention_needed that POST /mental-health
\* answers are those the crisis detector computes from the payload; a payload
\* whose free text holds a crisis keyword is answered with
\* crisis_intervention_needed true.
C3_RouteAnswersWithCrisisDetector ==
    (op = "mental_health_assessment" /\ ret.status_code = 200)
        => /\ ret.risk_level = assess_crisis_risk(payload).risk_level
           /\ ret.crisis_intervention_needed
                  = assess_crisis_risk(payload).crisis_intervention_needed
           /\ HasCrisisKeyword(payload) => ret.crisis_intervention_needed

\* C4 as claimed: on the normal and on the fail-safe path alike,
\* crisis_intervention_needed iff risk_level = crisis and
\* professional_referral_suggested iff risk_level is high or crisis.
C4_FlagsFollowLevelOnBothPaths ==
    op = "assess_crisis_risk"
        => /\ ret.crisis_intervention_needed <=> ret.risk_level = "crisis"
           /\ ret.professional_referral_suggested <=> ret.risk_level \in {"high", "crisis"}

\* C4, amended: professional_referral_suggested iff risk_level is high or crisis
\* on both paths; crisis_intervention_needed iff risk_level = crisis on the
\* normal path, while the fail-safe path returns risk_level high with
\* crisis_intervention_needed true.
C4_FlagsFollowLevelOnNormalPath ==
    op = "assess_crisis_risk"
        => /\ ret.professional_referral_suggested <=> ret.risk_level \in {"high", "crisis"}
           /\ ~CrisisRaises(payload)
                  => (ret.crisis_intervention_needed <=> ret.risk_level = "crisis")
           /\ CrisisRaises(payload)
                  => (ret.risk_level = "high" /\ ret.crisis_intervention_needed)

C4_Witness ==
    /\ op = "assess_crisis_risk"
    /\ CrisisRaises(payload)
    /\ ret.risk_level = "high"
    /\ ret.crisis_intervention_needed

\* responses is given and is no mapping
ResponsesNotMapping(p) == p.t = "dict" /\ p.responses.t = "none"

\* every keyword of every tier and all three numeric overlays
MaxNormalScore ==
    10 * Len(risk_keywords.crisis) + 5 * Len(risk_keywords.high_risk)
    + 2 * Len(risk_keywords.moderate_risk) + 3 + 2 + 2

\* C5: assess_crisis_risk returns risk_score 999 exactly when its error path
\* was taken: an input that makes it raise (responses that is no mapping, for
\* one) yields 999 with risk_level high, and the normal path stays at or below
\* the score of all keywords and all overlays, which is below 999.
C5_SentinelIffErrorPath ==
    op = "assess_crisis_risk"
        => /\ ret.risk_score = 999 <=> CrisisRaises(payload)
           /\ ResponsesNotMapping(payload)
                  => (ret.risk_score = 999 /\ ret.risk_level = "high")
           /\ ~CrisisRaises(payload)
                  => (ret.risk_score <= MaxNormalScore /\ MaxNormalScore < 999)

C5_Witness ==
    /\ op = "assess_crisis_risk"
    /\ ~CrisisRaises(payload)
    /\ ret.risk_score = MaxNormalScore

\* the number of keywords of one tier that occur in text
MatchedCount(keywords, text) ==
    Cardinality({k \in 1..Len(keywords) : Contains(text, keywords[k])})

\* the rating the payload gives under key (None when it gives none)
Rating(p, key) == DictGet(PayloadGet(p, "responses", DictV(<<>>)), key, NoneV)

\* the lower-cased text of each input channel: questionnaire answers, symptoms,
\* triggers, support-system narrative
ChannelTexts(p) ==
    LET support_system == PayloadGet(p, "support_system", StrV(""))
    IN  << Join(ResponseTexts(PayloadGet(p, "responses", DictV(<<>>)).items, 1)),
           Join(LowerAll(PayloadGet(p, "symptoms", ListV(<<>>)).items)),
           Join(LowerAll(PayloadGet(p, "triggers", ListV(<<>>)).items)),
           IF support_system.t = "str" THEN Lower(support_system.s) ELSE "" >>

\* the number of the channel texts keyword occurs in
ChannelCount(texts, keyword) ==
    Cardinality({c \in 1..Len(texts) : Contains(texts[c], keyword)})

\* the sum of f[i] over i in 1..n
RECURSIVE SumTo(_, _)
SumTo(f, n) == IF n = 0 THEN 0 ELSE f[n] + SumTo(f, n - 1)

\* the keyword score if a keyword counted once for every channel it occurs in
PerChannelScore(p) ==
    LET texts == ChannelTexts(p)
    IN  SumTo([k \in 1..Len(risk_keywords.crisis) |->
                  10 * ChannelCount(texts, risk_keywords.crisis[k])],
              Len(risk_keywords.crisis))
        + SumTo([k \in 1..Len(risk_keywords.high_risk) |->
                    5 * ChannelCount(texts, risk_keywords.high_risk[k])],
                Len(risk_keywords.high_risk))
        + SumTo([k \in 1..Len(risk_keywords.moderate_risk) |->
                    2 * ChannelCount(texts, risk_keywords.moderate_risk[k])],
                Len(risk_keywords.moderate_risk))

AllRiskKeywords ==
    {risk_keywords.crisis[k] : k \in 1..Len(risk_keywords.crisis)}
    \cup {risk_keywords.high_risk[k] : k \in 1..Len(risk_keywords.high_risk)}
    \cup {risk_keywords.moderate_risk[k] : k \in 1..Len(risk_keywords.moderate_risk)}

\* the keywords that reach the detector through two channels or more
TwoChannelKeywords(p) ==
    LET texts == ChannelTexts(p)
    IN  {kw \in AllRiskKeywords : ChannelCount(texts, kw) >= 2}

\* the weight an entry of risk_indicators stands for
IndicatorWeight(indicator) ==
    IF StartsWithAt(indicator, 1, "crisis indicator: ") THEN 10
    ELSE IF StartsWithAt(indicator, 1, "high risk indicator: ") THEN 5
    ELSE IF StartsWithAt(indicator, 1, "moderate risk indicator: ") THEN 2
    ELSE IF indicator = "Very low mood rating" THEN 3
    ELSE 2

\* the entries of risk_indicators that name the keyword
IndicatorsNaming(indicators, keyword) ==
    {i \in 1..Len(indicators) :
        indicators[i] \in {"Crisis indicator: " \o keyword,
                           "High risk indicator: " \o keyword,
                           "Moderate risk indicator: " \o keyword}}

\* the three numeric overlays, as the claims state them
OverlayScore(p) ==
    (IF Rating(p, "mood_rating").t = "int" /\ Rating(p, "mood_rating").n <= 3
     THEN 3 ELSE 0)
    + (IF Rating(p, "anxiety_level").t = "int" /\ Rating(p, "anxiety_level").n >= 8
       THEN 2 ELSE 0)
    + (IF Rating(p, "stress_level").t = "int" /\ Rating(p, "stress_level").n >= 8
       THEN 2 ELSE 0)

\* C6 as claimed: a keyword that appears through two input channels adds its
\* weight to risk_score twice (once for each channel).
C6_TwoChannelsCountTwice ==
    (op = "assess_crisis_risk" /\ ~CrisisRaises(payload)
     /\ TwoChannelKeywords(payload) # {})
        => ret.risk_score = PerChannelScore(payload) + OverlayScore(payload)

\* C6, amended: a keyword that appears through two input channels adds its
\* weight to risk_score once: it has exactly one entry in risk_indicators, and
\* risk_score is the sum of the weights of the entries.
C6_TwoChannelsCountOnce ==
    (op = "assess_crisis_risk" /\ ~CrisisRaises(payload)
     /\ TwoChannelKeywords(payload) # {})
        => /\ \A kw \in TwoChannelKeywords(payload) :
                  Cardinality(IndicatorsNaming(ret.risk_indicators, kw)) = 1
           /\ ret.risk_score =
                  SumTo([i \in 1..Len(ret.risk_indicators) |->
                            IndicatorWeight(ret.risk_indicators[i])],
                        Len(ret.risk_indicators))

C6_Witness ==
    /\ op = "assess_crisis_risk"
    /\ ~CrisisRaises(payload)
    /\ TwoChannelKeywords(payload) # {}
    /\ ret.risk_score < PerChannelScore(payload) + OverlayScore(payload)

C8_ModerateOnlyStaysModerate ==
    (op = "assess_crisis_risk" /\ ~CrisisRaises(payload)
     /\ MatchedCount(risk_keywords.crisis, all_text) = 0
     /\ MatchedCount(risk_keywords.high_risk, all_text) = 0
     /\ OverlayScore(payload) = 0)
        => ret.risk_level \in {"low", "moderate"}

\* some dangerous pattern of the sanitizer matches somewhere in text
HasDangerousPattern(text) ==
    \E k \in 1..Len(dangerous_patterns) :
        \E i \in 1..Len(text) : MatchLen(dangerous_patterns[k], text, i) > 0

\* C9: sanitize_mental_health_input runs on the payload before every
\* invocation of assess_crisis_risk, so that the corpus the crisis scorer scans
\* never holds a script/eval/event-handler pattern.
C9_ScorerRunsOnSanitizedText ==
    op = "assess_crisis_risk" => ~HasDangerousPattern(all_text)

\* the string values of a payload
StringValues(p) ==
    IF p.t # "dict" THEN {}
    ELSE (IF p.responses.t = "dict"
          THEN {p.responses.items[i].val.s :
                    i \in {j \in 1..Len(p.responses.items) :
                              p.responses.items[j].val.t = "str"}}
          ELSE {})
         \cup (IF p.symptoms.t = "list"
               THEN {p.symptoms.items[i] : i \in 1..Len(p.symptoms.items)} ELSE {})
         \cup (IF p.triggers.t = "list"
               THEN {p.triggers.items[i] : i \in 1..Len(p.triggers.items)} ELSE {})
         \cup (IF p.support_system.t = "str" THEN {p.support_system.s} ELSE {})

\* C10: no string value of the result of sanitize_mental_health_input holds
\* '<script>', 'javascript:', 'onload=' or 'eval('.
C10_SanitizedHoldsNoDangerousSubstring ==
    op = "sanitize_mental_health_input"
        => \A v \in StringValues(ret) :
               /\ ~Contains(v, "<script>")
               /\ ~Contains(v, "javascript:")
               /\ ~Contains(v, "onload=")
               /\ ~Contains(v, "eval(")

\* the response carries the fixed bundle of crisis resources
BundleAttached(response) ==
    /\ "crisis_resources" \in DOMAIN response
    /\ response.crisis_resources = crisis_resources

Scored == op = "assess_comprehensive_risk" /\ ~risk_args.aggregator_fault

\* the symptom component of the result, for a list of symptom strings
SymptomComponent == ret.assessment_components.symptoms

\* the joined, lower-cased text of the symptom list
SymptomText == Lower(Join(risk_args.symptoms.items))

\* the symptoms name chest pain with one of the two breathing complaints
ChestPainWithBreathing ==
    /\ risk_args.symptoms.t = "list"
    /\ Contains(SymptomText, "chest pain")
    /\ Contains(SymptomText, "difficulty breathing")
       \/ Contains(SymptomText, "shortness of breath")

\* C12: for every symptom list whose joined text holds 'chest pain' with
\* 'difficulty breathing' or with 'shortness of breath', the symptom score is
\* exactly 10 and the factors hold the emergency factor of each of the two
\* keywords and the chest-pain combination-bonus factor.
C12_ChestPainBreathingCombination ==
    (Scored /\ ChestPainWithBreathing)
        => /\ SymptomComponent.score = 10
           /\ InSeq(SymptomComponent.factors, "Emergency symptom detected: chest pain")
           /\ Contains(SymptomText, "difficulty breathing")
                  => InSeq(SymptomComponent.factors,
                           "Emergency symptom detected: difficulty breathing")
           /\ Contains(SymptomText, "shortness of breath")
                  => InSeq(SymptomComponent.factors,
                           "Emergency symptom detected: shortness of breath")
           /\ InSeq(SymptomComponent.factors,
                    "Chest pain + breathing difficulty - high risk combination")

\* the vitals component of the result
VitalComponent == ret.assessment_components.vitals

\* the number a reading stands for, in tenths (-1: it cannot be parsed)
ReadingTenths(value) ==
    CASE value.t = "num" -> value.v10
      [] value.t = "int" -> 10 * value.n
      [] value.t = "str" -> ParseTenths(value.s)
      [] OTHER -> -1

\* the call gives one reading, of a known vital, that can be parsed
OneKnownReading ==
    /\ risk_args.vitals.t = "dict"
    /\ Len(risk_args.vitals.items) = 1
    /\ risk_args.vitals.items[1].key \in known_vitals
    /\ ReadingTenths(risk_args.vitals.items[1].val) >= 0

\* band inner lies within band outer
Nested(inner, outer) == outer[1] <= inner[1] /\ inner[2] <= outer[2]

\* C13: for every known vital and every parsable value the vitals scorer
\* contributes exactly one tier: 6 with a 'Critical' factor outside the
\* critical band, else 4 outside the concerning band, else 2 outside the
\* normal band, and no score and no factor inside the normal band, the three
\* bands being nested with the critical one widest.
C13_OneTierPerVital ==
    (Scored /\ OneKnownReading)
        => LET vital_name == risk_args.vitals.items[1].key
               v10 == ReadingTenths(risk_args.vitals.items[1].val)
               ranges == vital_ranges(vital_name)
               shown == vital_name \o ": " \o FloatStr(v10)
           IN  /\ Nested(ranges.normal, ranges.concerning)
               /\ Nested(ranges.concerning, ranges.critical)
               /\ InBand(ranges.normal, v10)
                      => (VitalComponent.score = 0 /\ VitalComponent.factors = <<>>)
               /\ ~InBand(ranges.critical, v10)
                      => (VitalComponent.score = 6
                          /\ VitalComponent.factors = <<"Critical " \o shown>>)
               /\ (InBand(ranges.critical, v10) /\ ~InBand(ranges.concerning, v10))
                      => (VitalComponent.score = 4
                          /\ VitalComponent.factors = <<"Concerning " \o shown>>)
               /\ (InBand(ranges.concerning, v10) /\ ~InBand(ranges.normal, v10))
                      => (VitalComponent.score = 2
                          /\ VitalComponent.factors = <<"Abnormal " \o shown>>)

\* a reading that float() cannot parse
Unparsable(item) ==
    item.val.t = "str" /\ item.val.s # "" /\ ParseTenths(item.val.s) < 0

Parsable(item) == ~Unparsable(item)

\* the call gives a reading of which some value cannot be parsed
SomeUnparsable ==
    /\ risk_args.vitals.t = "dict"
    /\ ~VitalRaises(risk_args.vitals)
    /\ \E i \in 1..Len(risk_args.vitals.items) : Unparsable(risk_args.vitals.items[i])

\* C14: a vital whose value cannot be parsed as a number is skipped: it adds
\* nothing to the score and no factor, and the other vitals of the reading are
\* scored as they are without it.
C14_UnparsableVitalIsSkipped ==
    (Scored /\ SomeUnparsable)
        => LET others == DictV(SelectSeq(risk_args.vitals.items, Parsable))
           IN  /\ VitalComponent.score = _assess_vital_signs_risk(others).score
               /\ VitalComponent.factors = _assess_vital_signs_risk(others).factors

\* the follow-up component of the result
FollowupComponent == ret.assessment_components.follow_up

\* the answer the call gives to a follow-up question (None when it gives none)
Answer(key) == DictGet(risk_args.follow_up_data, key, NoneV)

\* the weight of the pain scale, as the claims state it
PainWeight(pain_level) ==
    IF pain_level >= 8 THEN 3 ELSE IF pain_level >= 6 THEN 2 ELSE 0

\* the weight of the breathing answer, as the claims state it
BreathingWeight == IF Answer("breathing_difficulty") = StrV("yes") THEN 4 ELSE 0

\* the weight of the progression answer, as the claims state it
ProgressionWeight ==
    IF Answer("symptom_progression") = StrV("Getting worse") THEN 2
    ELSE IF Answer("symptom_progression") = StrV("Fluctuating") THEN 1
    ELSE 0

\* the call gives follow-up answers whose pain_scale is no integer
MalformedPainScale ==
    /\ risk_args.follow_up_data.t = "dict"
    /\ Truthy(risk_args.follow_up_data)
    /\ Answer("pain_scale").t = "str"
    /\ Answer("pain_scale").s # ""
    /\ ~AllDigits(Answer("pain_scale").s)

\* C15: a malformed follow-up answer (a pain_scale that is no integer) is
\* recovered locally: that field alone is skipped, no factor is emitted for
\* it, and breathing_difficulty and symptom_progression still contribute their
\* full weights.
C15_MalformedAnswerIsSkipped ==
    (Scored /\ MalformedPainScale)
        => /\ FollowupComponent.score = Least(5, BreathingWeight + ProgressionWeight)
           /\ ~InSeq(FollowupComponent.factors, "Follow-up assessment error")
           /\ BreathingWeight > 0
                  => InSeq(FollowupComponent.factors,
                           "Patient reports breathing difficulty")

\* the context component of the result
ContextComponent == ret.assessment_components.context

\* what the context of the call gives under key (None when it gives nothing)
ContextValue(key) == DictGet(risk_args.user_context, key, NoneV)

\* the medical history of the call
MedicalHistory == DictGet(risk_args.user_context, "medical_history", ListV(<<>>)).items

\* the number of history entries that hold a high-risk condition
MatchingEntries ==
    Cardinality({i \in 1..Len(MedicalHistory) : IsHighRiskCondition(MedicalHistory[i])})

\* the context scorer ran on a context, without an exception
ContextScored ==
    /\ Scored
    /\ Truthy(risk_args.user_context)
    /\ ~ContextRaises(risk_args.user_context)

\* the age contribution, as the claim states it
AgeWeight(age) ==
    IF age >= 65 THEN 2 ELSE IF age <= 2 THEN 3 ELSE IF age <= 12 THEN 1 ELSE 0

\* C16: for every integer age in the context, the age contribution of the
\* context scorer is +2 when age >= 65, +3 when age <= 2 (age 0 included),
\* +1 when 2 < age <= 12, and 0 otherwise.
C16_AgeContribution ==
    (ContextScored /\ ContextValue("age").t = "int"
     /\ MatchingEntries = 0 /\ ~Truthy(ContextValue("pregnant")))
        => ContextComponent.score = AgeWeight(ContextValue("age").n)

\* the weight of the age factor the component reports
ReportedAgeWeight ==
    IF InSeq(ContextComponent.factors, "Age 65+ increases risk for complications") THEN 2
    ELSE IF InSeq(ContextComponent.factors, "Very young age increases risk") THEN 3
    ELSE IF InSeq(ContextComponent.factors,
                  "Pediatric patient - increased monitoring needed") THEN 1
    ELSE 0

\* the factors of the component that report a high-risk medical condition
HistoryFactors ==
    {i \in 1..Len(ContextComponent.factors) :
        StartsWithAt(ContextComponent.factors[i], 1, "high-risk medical condition: ")}

\* C17: each medical-history entry that holds a high-risk condition adds +2,
\* independently of the others (two matching entries add +4), the pregnancy
\* flag adds a further +2, and the component score is the sum of the age,
\* history and pregnancy contributions capped at 6.
C17_HistoryAndPregnancy ==
    ContextScored
        => /\ Cardinality(HistoryFactors) = MatchingEntries
           /\ \A i \in 1..Len(MedicalHistory) :
                  IsHighRiskCondition(MedicalHistory[i])
                      => InSeq(ContextComponent.factors,
                               "High-risk medical condition: " \o MedicalHistory[i])
           /\ Truthy(ContextValue("pregnant"))
                  <=> InSeq(ContextComponent.factors,
                            "Pregnancy requires special medical consideration")
           /\ ContextComponent.score =
                  Least(6, ReportedAgeWeight + 2 * MatchingEntries
                           + (IF Truthy(ContextValue("pregnant")) THEN 2 ELSE 0))

\* two matching entries and the pregnancy flag, under the cap
C17_Witness ==
    /\ ContextScored
    /\ MatchingEntries = 2
    /\ Truthy(ContextValue("pregnant"))
    /\ ReportedAgeWeight = 0
    /\ ContextComponent.score = 6

\* the call gives follow-up answers that are well-formed: pain_scale, if
\* given, is an integer or the decimal literal of one
WellFormedFollowup ==
    /\ risk_args.follow_up_data.t = "dict"
    /\ Truthy(risk_args.follow_up_data)
    /\ \/ Answer("pain_scale").t \in {"none", "int"}
       \/ Answer("pain_scale").t = "str" /\ Answer("pain_scale").s # ""
          /\ AllDigits(Answer("pain_scale").s)

\* the pain scale of a well-formed answer set, 0 when none is given
GivenPainLevel ==
    CASE Answer("pain_scale").t = "int" -> Answer("pain_scale").n
      [] Answer("pain_scale").t = "str" -> DigitsValue(Answer("pain_scale").s)
      [] OTHER -> 0

\* C18: for every well-formed follow-up answer set the follow-up score is
\* min(5, P + B + G): P is 3 if pain_scale >= 8, 2 if 6 <= pain_scale < 8,
\* else 0; B is 4 if breathing_difficulty = 'yes', else 0; G is 2 if
\* symptom_progression = 'Getting worse', 1 if 'Fluctuating', else 0.
C18_FollowupScore ==
    (Scored /\ WellFormedFollowup)
        => FollowupComponent.score =
               Least(5, PainWeight(GivenPainLevel) + BreathingWeight + ProgressionWeight)

\* pain at the boundary 8 with a fluctuating course
C18_Witness ==
    /\ Scored /\ WellFormedFollowup
    /\ GivenPainLevel = 8
    /\ ProgressionWeight = 1
    /\ BreathingWeight = 0
    /\ FollowupComponent.score = 4

\* the aggregator has returned a result, by either path
Returned == op = "assess_comprehensive_risk"

\* the bands in ascending order
BandOrder == <<"LOW", "LOW_MODERATE", "MODERATE", "HIGH", "CRITICAL">>

\* the position of the band of a total, by the thresholds the claim states
BandRank(total) ==
    IF total >= 15 THEN 5 ELSE IF total >= 10 THEN 4 ELSE IF total >= 6 THEN 3
    ELSE IF total >= 3 THEN 2 ELSE 1

\* urgency_level and triage_category of the bands, in ascending order
BandUrgency == <<"routine", "less_urgent", "semi_urgent", "urgent", "emergency">>

BandTriage == <<"non_urgent", "less_urgent", "semi_urgent", "urgent", "immediate">>

\* time_to_care of the bands, in ascending order
BandTimeToCare ==
    <<"Routine care (1-7 days)", "Within 24 hours", "Within 2-4 hours",
      "Within 1 hour", "Immediate (0-15 minutes)">>

\* the result carries the band of its risk_score in all four fields
AllFieldsInBand(result) ==
    /\ {"overall_risk_level", "urgency_level", "triage_category", "time_to_care"}
           \subseteq DOMAIN result
    /\ result.overall_risk_level = BandOrder[BandRank(result.risk_score)]
    /\ result.urgency_level = BandUrgency[BandRank(result.risk_score)]
    /\ result.triage_category = BandTriage[BandRank(result.risk_score)]
    /\ result.time_to_care = BandTimeToCare[BandRank(result.risk_score)]

\* the largest total: every component at its cap
MaxTotal == 10 + 8 + 6 + 5

\* the band of _determine_final_risk_level is the one the thresholds 15, 10, 6
\* and 3 give, and never falls as the total grows
ThresholdsExactAndMonotone ==
    /\ \A total \in 0..MaxTotal :
           _determine_final_risk_level(total).overall_risk_level
               = BandOrder[BandRank(total)]
    /\ \A a \in 0..MaxTotal, b \in 0..MaxTotal :
           a <= b => \E i \in 1..5 : \E j \in i..5 :
                         /\ _determine_final_risk_level(a).overall_risk_level = BandOrder[i]
                         /\ _determine_final_risk_level(b).overall_risk_level = BandOrder[j]

Invoked(result, key) == "invoked" \notin DOMAIN result.assessment_components[key]

\* the score a component adds to the total: its own if it was invoked
Contribution(result, key) ==
    IF Invoked(result, key) THEN result.assessment_components[key].score ELSE 0

\* risk_score is the sum of the invoked components, the optional ones being
\* invoked iff their input is given and non-empty, each within its cap
SumsInvokedComponents(result) ==
    /\ "assessment_components" \in DOMAIN result
    /\ Invoked(result, "symptoms")
    /\ Invoked(result, "vitals") <=> Truthy(risk_args.vitals)
    /\ Invoked(result, "context") <=> Truthy(risk_args.user_context)
    /\ Invoked(result, "follow_up") <=> Truthy(risk_args.follow_up_data)
    /\ result.risk_score =
           Contribution(result, "symptoms") + Contribution(result, "vitals")
           + Contribution(result, "context") + Contribution(result, "follow_up")
    /\ Contribution(result, "symptoms") \in 0..10
    /\ Contribution(result, "vitals") \in 0..8
    /\ Contribution(result, "context") \in 0..6
    /\ Contribution(result, "follow_up") \in 0..5
    /\ result.risk_score \in 0..MaxTotal

\* C20 as claimed: in every result of assess_comprehensive_risk risk_score is
\* the sum of the scores of exactly the invoked components (symptoms always;
\* vitals, context and follow-up iff their input is given and non-empty, with
\* a key in assessment_components exactly for those), each within its cap 10,
\* 8, 6, 5, so risk_score is between 0 and 29.
C20_EveryResultSumsInvoked ==
    Returned => SumsInvokedComponents(ret)

\* C20, amended: the same in every result of the normal path; the fail-safe
\* result has risk_score 10 and no assessment_components.
C20_NormalResultSumsInvoked ==
    Returned
        => /\ ~risk_args.aggregator_fault => SumsInvokedComponents(ret)
           /\ risk_args.aggregator_fault
                  => /\ ret.risk_score = 10
                     /\ "assessment_components" \notin DOMAIN ret

\* all four components invoked, the vitals at their cap
C20_Witness ==
    /\ Scored
    /\ Invoked(ret, "vitals") /\ Invoked(ret, "context") /\ Invoked(ret, "follow_up")
    /\ Contribution(ret, "vitals") = 8
    /\ Contribution(ret, "symptoms") > 0
    /\ Contribution(ret, "context") > 0
    /\ Contribution(ret, "follow_up") > 0

(***************************************************************************)
(* The request layer over the aggregator                                   *)
(***************************************************************************)

\* a route has passed its own checks and has called the aggregator, which
\* returned its fail-safe result
RouteMetFailSafe ==
    /\ op \in {"comprehensive_risk_assessment", "enhanced_symptom_assessment"}
    /\ risk_args.aggregator_fault
    /\ ret.status_code \notin {400, 401}

\* C21: when the aggregator returns its fail-safe-high result, both routes
\* answer with HTTP 200 carrying that high-risk payload; a scoring failure is
\* never turned into a 5xx response.
C21_FailSafeAnsweredWith200 ==
    RouteMetFailSafe
        => /\ ret.status_code = 200
           /\ ret.data.overall_risk_level = "HIGH"
           /\ ret.data.risk_score = 10

(***************************************************************************)
(* The entry points never raise                                            *)
(***************************************************************************)

\* the keys of a result of each entry point
ResultKeys ==
    [assess_comprehensive_risk |->
         {"overall_risk_level", "risk_score", "risk_factors", "recommendations",
          "urgency_level"},
     assess_crisis_risk |->
         {"risk_level", "risk_score", "risk_indicators", "crisis_intervention_needed",
          "professional_referral_suggested"},
     generate_follow_up_questions |-> {"success", "has_follow_up", "questions"}]

\* the three entry points that build their result
BuildsResult == op \in DOMAIN ResultKeys

\* the operation that ran let no exception through
NothingRaised == op # "init" => ret # Raised

\* C22 as claimed: assess_comprehensive_risk, assess_crisis_risk,
\* sanitize_mental_health_input and generate_follow_up_questions return a
\* structured result for every input, missing, null and wrongly typed
\* arguments included, and none lets an exception reach its caller.
C22_EveryEntryPointReturnsStructured ==
    /\ NothingRaised
    /\ BuildsResult => ResultKeys[op] \subseteq DOMAIN ret
    /\ op = "sanitize_mental_health_input" => ret.t = "dict"

\* C22 as the code has it: none of the four lets an exception reach its
\* caller; the aggregator, the crisis detector and the question generator
\* return a result with their keys for every input; the sanitizer returns a
\* payload, which is a dict with its four fields or, when the payload it was
\* given is no dict, a value that is no dict either (null, a string, a number).
C22_NoExceptionReachesCaller ==
    /\ NothingRaised
    /\ BuildsResult => ResultKeys[op] \subseteq DOMAIN ret
    /\ op = "sanitize_mental_health_input"
           => /\ ret.t \in {"dict", "none", "str", "int"}
              /\ ret.t = "dict"
                     => {"responses", "symptoms", "triggers", "support_system"}
                            \subseteq DOMAIN ret

\* the question generator has met a null assessment or symptoms of a wrong
\* type and has answered with its error result
C22_Witness ==
    /\ op = "generate_follow_up_questions"
    /\ risk_args.symptoms.t # "list"
    /\ ret = QuestionsError

(***************************************************************************)
(* The follow-up questions                                                 *)
(***************************************************************************)

\* the question generator has run its normal path on a list of symptoms
Asked == op = "generate_follow_up_questions" /\ ret.success

\* a word of the set occurs in the lower-cased symptoms joined by spaces
WordMatches(words) ==
    \E w \in words : Contains(Lower(Join(risk_args.symptoms.items)), w)

\* the questions of a block when one of its words matches
BlockIf(words, questions) == IF WordMatches(words) THEN questions ELSE <<>>

\* the concatenation of the blocks in their fixed order
AllBlocksInOrder ==
    BlockIf({"pain", "ache", "hurt", "sore", "tender", "sharp", "dull"},
            <<"pain_scale", "pain_type", "pain_triggers">>)
    \o BlockIf({"fever", "temperature", "hot", "chills", "sweating"},
               <<"temperature_reading", "fever_duration">>)
    \o BlockIf({"cough", "breathing", "shortness", "wheeze", "chest"},
               <<"breathing_difficulty", "cough_type">>)
    \o BlockIf({"nausea", "vomit", "stomach", "abdominal", "diarrhea", "constipation"},
               <<"last_meal", "digestive_frequency">>)
    \o <<"recent_travel", "medications", "symptom_progression">>

\* C24: generate_follow_up_questions returns the first 5 entries of the
\* concatenation, in this order, of the pain block (3 questions, if a pain
\* word matches), the fever block (2), the respiratory block (2), the
\* digestive block (2) and the always-appended general block (3); with the
\* symptoms 'sharp pain in stomach' and 'fever' exactly the pain and fever
\* questions are kept; total_questions = len(questions) <= 5.
C24_FirstFiveInBlockOrder ==
    Asked
        => /\ ret.questions
                  = [i \in 1..Least(5, Len(AllBlocksInOrder)) |-> AllBlocksInOrder[i]]
           /\ ret.total_questions = Len(ret.questions)
           /\ ret.total_questions <= 5
           /\ risk_args.symptoms.items = <<"sharp pain in stomach", "fever">>
                  => ret.questions = <<"pain_scale", "pain_type", "pain_triggers",
                                       "temperature_reading", "fever_duration">>

\* the example of the claim: the digestive and general blocks are cut off
C24_Witness ==
    /\ Asked
    /\ risk_args.symptoms.items = <<"sharp pain in stomach", "fever">>
    /\ WordMatches({"stomach"})
    /\ Len(AllBlocksInOrder) = 10
    /\ ret.total_questions = 5

(***************************************************************************)
(* The model service under concurrent requests                             *)
(***************************************************************************)

\* the background loading threads that are alive
RunningLoaders == {i \in 1..MaxLoaders : loaders[i] # 0}

\* C30: under every interleaving of concurrent start_model_loading and
\* unload_model calls with the background loader, at most one background
\* loading thread runs at a time and model_status is LOADING for as long as
\* one is running.
C30_OneLoaderAndStatusLoading ==
    /\ Cardinality(RunningLoaders) <= 1
    /\ RunningLoaders # {} => model_status = "loading"

\* the last part of C30: a start or an unload request that finds the status
\* LOADING is refused and changes no field of the service
RefusedWhileLoading ==
    [][\A r \in Requests :
          (model_status = "loading" /\ (StartCheck(r) \/ UnloadCheck(r)))
              => /\ ~ret'.success
                 /\ ret'.status = "loading"
                 /\ UNCHANGED model_vars]_vars

(***************************************************************************)
(* The aggregator holds no state between calls                             *)
(***************************************************************************)

NothingReported ==
    /\ Scored
    /\ risk_args.symptoms = ListV(<<>>)
    /\ ~Truthy(risk_args.vitals)
    /\ ~Truthy(risk_args.user_context)
    /\ ~Truthy(risk_args.follow_up_data)

\* C25: assess_comprehensive_risk called with an empty symptom list and no
\* vitals, context or follow-up data returns a normal result with symptom
\* score 0, risk_score 0, no risk factors and overall_risk_level LOW, rather
\* than an error or the fail-safe result.
C25_NothingReportedIsLow ==
    NothingReported
        => /\ "error" \notin DOMAIN ret
           /\ ret.assessment_components.symptoms.score = 0
           /\ ret.assessment_components.symptoms.factors = <<>>
           /\ ret.risk_score = 0
           /\ ret.risk_factors = <<>>
           /\ ret.overall_risk_level = "LOW"
           /\ ret # RiskFailSafe

\* the call with an empty list and an empty dict of vitals has returned
C25_Witness ==
    /\ NothingReported
    /\ risk_args.vitals = DictV(<<>>)
    /\ ret.urgency_level = "routine"

\* the symptom component of the result reports an emergency symptom
EmergencyDetected ==
    /\ Scored
    /\ "emergency_symptoms_detected" \in DOMAIN SymptomComponent
    /\ SymptomComponent.emergency_symptoms_detected

\* C26: whenever the symptom component of an assessment reports
\* emergency_symptoms_detected = true, the overall_risk_level of that
\* assessment is HIGH or CRITICAL, whatever the other inputs are (also when
\* only symptoms are supplied).
C26_EmergencyIsHighOrCritical ==
    EmergencyDetected => ret.overall_risk_level \in {"HIGH", "CRITICAL"}

(***************************************************************************)
(* Follow-up chaining                                                      *)
(***************************************************************************)

\* the aggregator has returned for a call that gave follow-up answers
Chained == Returned /\ Truthy(risk_args.follow_up_data)

\* the initial assessment: the same call without the follow-up answers
InitialAssessment ==
    assess_comprehensive_risk([risk_args EXCEPT !.follow_up_data = NoneV])

\* the position of a risk level among the bands
LevelRank(level) == CHOOSE k \in 1..Len(BandOrder) : BandOrder[k] = level

\* C27: follow-up chaining only escalates: re-running
\* assess_comprehensive_risk with the same symptoms, vitals and context plus
\* any non-empty follow-up answer set yields a risk_score, and therefore a
\* band, greater than or equal to the initial one.
C27_FollowupOnlyEscalates ==
    Chained
        => /\ ret.risk_score >= InitialAssessment.risk_score
           /\ LevelRank(ret.overall_risk_level)
                  >= LevelRank(InitialAssessment.overall_risk_level)

\* follow-up answers have lifted a scored initial assessment into a higher band
C27_Witness ==
    /\ Chained
    /\ Scored
    /\ InitialAssessment.risk_score > 0
    /\ ret.risk_score > InitialAssessment.risk_score
    /\ LevelRank(ret.overall_risk_level)
           > LevelRank(InitialAssessment.overall_risk_level)

(***************************************************************************)
(* The order of the symptoms                                               *)
(***************************************************************************)

\* the lists that hold the entries of seq in another order
Reorderings(seq) ==
    {[i \in 1..Len(seq) |-> seq[p[i]]] :
        p \in {q \in [1..Len(seq) -> 1..Len(seq)] :
                  \A i, j \in 1..Len(seq) : q[i] = q[j] => i = j}}

\* the factors of a component, as a set
FactorSet(component) == {component.factors[i] : i \in 1..Len(component.factors)}

\* C28: the symptom score and the set of factors produced by the symptom
\* scorer depend only on which symptom strings are in the list, not on their
\* order: every permutation of the same symptom list gives the same score
\* and the same overall band.
C28_OrderDoesNotMatter ==
    (Scored /\ risk_args.symptoms.t = "list")
        => \A other \in Reorderings(risk_args.symptoms.items) :
               LET reordered ==
                       assess_comprehensive_risk(
                           [risk_args EXCEPT !.symptoms = ListV(other)])
               IN  /\ reordered.assessment_components.symptoms.score
                          = SymptomComponent.score
                   /\ FactorSet(reordered.assessment_components.symptoms)
                          = FactorSet(SymptomComponent)
                   /\ reordered.overall_risk_level = ret.overall_risk_level

(***************************************************************************)
(* The sanitizer applied twice                                             *)
(***************************************************************************)

\* C29: sanitize_mental_health_input is idempotent: after one pass no string
\* of the output still matches any of the dangerous patterns, so sanitizing
\* the output again returns it unchanged.
C29_SanitizeIsIdempotent ==
    op = "sanitize_mental_health_input"
        => /\ \A v \in StringValues(ret) : ~HasDangerousPattern(v)
           /\ sanitize_mental_health_input(ret) = ret

====
